---- MODULE Spec2Model ----
(***************************************************************************)
(* A model of credrails-reconciler's CSV reconciliation engine             *)
(* (src/credrails/reconciler/lib/csv_reconciler.py): the CSVDiff model,    *)
(* SimpleCSVRecordDiffer and the generator CSVReconciler.reconcile.         *)
(*                                                                         *)
(* Data representation                                                     *)
(*   - a Python value is a record [kind, chars]: a str is kind "str" with  *)
(*     its characters as a sequence, None is kind "None", and the list     *)
(*     csv.DictReader stores under the key None for an overlong row is     *)
(*     kind "list";                                                        *)
(*   - a column name is a TLA+ string; NoneCol stands for Python's None    *)
(*     where a column name is expected (DictReader's restkey, and an       *)
(*     absent CSVDiff.field);                                              *)
(*   - a CSVRecord (an ordered Mapping) is a sequence of <<column, value>> *)
(*     pairs with distinct columns, in iteration order;                    *)
(*   - a dict of the engine is a sequence of <<key, value>> pairs in       *)
(*     insertion order.                                                    *)
(***************************************************************************)
EXTENDS Integers, Sequences, FiniteSets, TLC

VARIABLES
    \* ---- CSVReconciler (one instance, one reconcile() generator) ----
    source,                   \* the records csv.DictReader(self._source) yields
    target,                   \* the records csv.DictReader(self._target) yields
    srcRead,                  \* records pulled from source so far
    tgtRead,                  \* records pulled from target so far
    pos,                      \* zip_longest iterations made so far
    _unresolved_src_records,  \* dict[str, CSVRecord], insertion ordered
    _unresolved_tgt_records,  \* dict[str, CSVRecord], insertion ordered
    pc,                       \* where the generator body stands
    pending,                  \* what the compare() generator in `yield from` has left
    flushIdx,                 \* index of the final for loops over the buffers
    out,                      \* the diffs yielded to the consumer, in order
    raised,                   \* the exception that left the generator, or NoExc
    consumer,                 \* "pulling", "stopped" (ceased to call next()) or
                              \*   "at_end" (called next() on the ended generator)
    suspended,                \* the generator is not started or stands at a yield
    \* ---- history of the run (observers, not program state) ----
    handed,                   \* the compare() calls made: <<source, target, record_id,
                              \*   lock-step position of the call, what its
                              \*   generator produces>>
    outMeta,                  \* per yielded diff: [pos, srcRead, tgtRead] at the yield
    \* ---- a direct SimpleCSVRecordDiffer.compare() call ----
    dSource, dTarget, dRecordId,  \* its arguments
    dPc,                      \* "idle", "iterating", "done", "error"
    dPending,                 \* what the compare() generator has left to produce
    dOut,                     \* the diffs it yielded
    dRaised,                  \* the exception it raised, or NoExc
    \* ---- the interpreter ----
    hashOrder,                \* iteration order of a set of column names
    \* ---- a CSVDiff whose expected / found properties are read ----
    pDiff,                    \* the CSVDiff instance
    pExpected, pFound,        \* what the properties returned, or Unread
    \* ---- a DiffWriter and the write() calls made on it ----
    wKind,                    \* "csv", "pretty", "noop" or "failing": the writer's class
    wPc,                      \* "new" (not constructed), "ready", "writing"
    wFeed,                    \* what the current call iterates: "list", "reconcile"
    wCalls,                   \* the lists the caller still has to pass to write()
    wGiven,                   \* the list passed to the current call
    wTaken,                   \* items the current call's for loop has taken
    wHistory,                 \* the finished calls: [outcome, given, taken, rows]
    written,                  \* the rows / lines written to the writable, in order
    \* ---- a second CSVReconciler instance ----
    active,                   \* the instance the engine variables stand for (1, 2)
    other,                    \* the engine state of the instance not being advanced
    \* ---- the application: app.conf, usecases.run, the classes of lib.common ----
    conf,                     \* the Config the module global app.conf is bound to
    setups,                   \* history: the configs passed to app.setup(), last one only
    lastUse,                  \* history: the last use of app.conf and what it gave
    runPc,                    \* usecases.run: "idle", "failed", "started"
    runRaised,                \* the exception that left usecases.run, or NoExc
    rKind,                    \* "csv" or "noop": the reconciler's class
    returned,                 \* what the NoOpReconciler.reconcile() calls returned
    wExc,                     \* a FailingDiffWriter's _exc_factory and _err_message
    wFailure,                 \* history: the exception its last write() raised
    \* ---- a second compare() call with the arguments of the first ----
    dFirst                    \* the first call: its arguments and what it gave

engineVars == <<source, target, srcRead, tgtRead, pos, _unresolved_src_records,
                _unresolved_tgt_records, pc, pending, flushIdx, out, raised,
                consumer, suspended, handed, outMeta>>
differVars == <<dSource, dTarget, dRecordId, dPc, dPending, dOut, dRaised>>
projVars == <<pDiff, pExpected, pFound>>
writerVars == <<wKind, wPc, wFeed, wCalls, wGiven, wTaken, wHistory, written>>
instanceVars == <<active, other>>
appVars == <<conf, setups, lastUse, runPc, runRaised, rKind, returned, wExc, wFailure>>
sideVars == <<projVars, writerVars, instanceVars, appVars, dFirst>>
vars == <<engineVars, differVars, hashOrder, sideVars>>

----------------------------------------------------------------------------
(* Python values *)

None == [kind |-> "None", chars |-> <<>>]
Str(s) == [kind |-> "str", chars |-> s]
\* The list of surplus cells DictReader stores under restkey (None).
RestList == [kind |-> "list", chars |-> <<"x">>]
IsStr(v) == v.kind = "str"
IsNone(v) == v.kind = "None"
NoneCol == "<None>"
NoExc == "<none>"

\* str.strip() with no argument removes leading and trailing whitespace.
IsSpace(c) == c = " "
RECURSIVE LStrip(_)
LStrip(s) == IF s # <<>> /\ IsSpace(Head(s)) THEN LStrip(Tail(s)) ELSE s
RECURSIVE RStrip(_)
RStrip(s) == IF s # <<>> /\ IsSpace(s[Len(s)])
             THEN RStrip(SubSeq(s, 1, Len(s) - 1)) ELSE s
strip(s) == RStrip(LStrip(s))

\* str.lower() on the characters of the model's alphabet.
LowerChar(c) == CASE c = "A" -> "a" [] c = "B" -> "b" [] OTHER -> c
lower(s) == [i \in 1..Len(s) |-> LowerChar(s[i])]

----------------------------------------------------------------------------
(* Mappings *)

Keys(m) == {m[i][1] : i \in DOMAIN m}
HasKey(m, k) == \E i \in DOMAIN m : m[i][1] = k
\* m[k] for a key the mapping has.
Lookup(m, k) == m[CHOOSE i \in DOMAIN m : m[i][1] = k][2]
\* Mapping.get(k, default)
Get(m, k, default) == IF HasKey(m, k) THEN Lookup(m, k) ELSE default
\* Mutant: an entry is added even when the key is there already.
DictSetAppend(m, k, v) == Append(m, <<k, v>>)
\* Mutant: a new key goes first.
DictSetPrepend(m, k, v) ==
    IF HasKey(m, k)
    THEN [i \in DOMAIN m |-> IF m[i][1] = k THEN <<k, v>> ELSE m[i]]
    ELSE <<(<<k, v>>)>> \o m

\* dict.__setitem__: a new key goes last, an existing key keeps its place.
DictSet(m, k, v) ==
    IF HasKey(m, k)
    THEN [i \in DOMAIN m |-> IF m[i][1] = k THEN <<k, v>> ELSE m[i]]
    ELSE Append(m, <<k, v>>)
\* dict.pop(k) for a key the dict has: the dict without the entry.
DictRemove(m, k) == SelectSeq(m, LAMBDA e : e[1] # k)

----------------------------------------------------------------------------
(* CSVDiffKinds and CSVDiff *)

EXTRA_TGT_FIELD == "Extra Target Column"
FIELD_MISMATCH == "Field Discrepancy"
NOT_IN_SOURCE == "Missing in Source"
NOT_IN_TARGET == "Missing in Target"
RAISE == "raise"

\* What a generator produces at one advance: a CSVDiff, or an exception
\* leaving it (kind RAISE, the exception's class in `field`).
Raise(exc) == [kind |-> RAISE, record_id |-> None, field |-> exc,
               source_value |-> None, target_value |-> None]
IsRaise(item) == item.kind = RAISE

\* attrs validators of CSVDiff: record_id instance_of(str); field,
\* source_value and target_value optional(instance_of(str)).  A column name
\* of the model is a str or None, so `field` always validates.
StrOrNone(v) == IsStr(v) \/ IsNone(v)
CSVDiff(kind, record_id, field, source_value, target_value) ==
    IF IsStr(record_id) /\ StrOrNone(source_value) /\ StrOrNone(target_value)
    THEN [kind |-> kind, record_id |-> record_id, field |-> field,
          source_value |-> source_value, target_value |-> target_value]
    ELSE Raise("TypeError")

of_extra_target_field(record_id, field) ==
    CSVDiff(EXTRA_TGT_FIELD, record_id, field, None, None)
of_field_mismatch(record_id, field, source_value, target_value) ==
    CSVDiff(FIELD_MISMATCH, record_id, field, source_value, target_value)
of_not_in_source(record_id) == CSVDiff(NOT_IN_SOURCE, record_id, NoneCol, None, None)
of_not_in_target(record_id) == CSVDiff(NOT_IN_TARGET, record_id, NoneCol, None, None)

\* A text is a sequence of fragments: characters, and the literal pieces of a
\* format string, a kind's value and a column name as one fragment each.
\* The text f"{value}" puts in: str(value), which is "None" for None.
Format(value) == IF IsNone(value) THEN <<"N", "o", "n", "e">> ELSE value.chars
FormatColumn(column) ==
    IF column = NoneCol THEN <<"N", "o", "n", "e">> ELSE <<column>>

\* CSVDiff.expected
expected(diff) ==
    CASE diff.kind = NOT_IN_TARGET -> <<"Record: ">> \o Format(diff.record_id)
      [] diff.kind = FIELD_MISMATCH -> <<"Value: ">> \o Format(diff.source_value)
      [] OTHER -> <<>>

\* Mutant: the case of NOT_IN_SOURCE is missing.
found_without_not_in_source(diff) ==
    CASE diff.kind = EXTRA_TGT_FIELD -> <<"Column: ">> \o FormatColumn(diff.field)
      [] diff.kind = FIELD_MISMATCH -> <<"Value: ">> \o Format(diff.target_value)
      [] OTHER -> <<>>

\* CSVDiff.found
found(diff) ==
    CASE diff.kind = EXTRA_TGT_FIELD -> <<"Column: ">> \o FormatColumn(diff.field)
      [] diff.kind = FIELD_MISMATCH -> <<"Value: ">> \o Format(diff.target_value)
      [] diff.kind = NOT_IN_SOURCE -> <<"Record: ">> \o Format(diff.record_id)
      [] OTHER -> <<>>

\* A property of the diff that has not been read yet.
Unread == <<"<unread>">>

\* diff.expected is read.
ReadExpected ==
    /\ pExpected = Unread
    /\ pExpected' = expected(pDiff)
    /\ UNCHANGED <<pDiff, pFound>>
    /\ UNCHANGED <<engineVars, differVars, hashOrder, writerVars, instanceVars,
                   appVars, dFirst>>

\* diff.found is read.
ReadFound ==
    /\ pFound = Unread
    /\ pFound' = found(pDiff)
    /\ UNCHANGED <<pDiff, pExpected>>
    /\ UNCHANGED <<engineVars, differVars, hashOrder, writerVars, instanceVars,
                   appVars, dFirst>>

\* A generator's items up to and including the first exception: nothing
\* follows a raise.
RECURSIVE UntilRaise(_)
UntilRaise(items) ==
    IF items = <<>> THEN <<>>
    ELSE IF IsRaise(Head(items)) THEN <<Head(items)>>
    ELSE <<Head(items)>> \o UntilRaise(Tail(items))

----------------------------------------------------------------------------
(* SimpleCSVRecordDiffer *)

\* Mutant: only the case is folded, whitespace is kept.
sanitize_value_nostrip(value) ==
    IF ~IsStr(value) THEN value ELSE Str(lower(value.chars))

\* value.strip().lower() for a str, any other value as it is.
_sanitize_value(value) ==
    IF ~IsStr(value) THEN value ELSE Str(lower(strip(value.chars)))

\* for column in source: ... (in the source record's iteration order)
RECURSIVE _check_for_field_mismatch(_, _, _)
_check_for_field_mismatch(src, tgt, record_id) ==
    IF src = <<>> THEN <<>>
    ELSE LET column == Head(src)[1]
             src_val == Head(src)[2]
             tgt_val == Get(tgt, column, None)
             rest == _check_for_field_mismatch(Tail(src), tgt, record_id)
         IN IF _sanitize_value(src_val) # _sanitize_value(tgt_val)
            THEN <<of_field_mismatch(record_id, column, src_val, tgt_val)>> \o rest
            ELSE rest

\* The elements of set `s` in the interpreter's iteration order.
SetIter(s) == SelectSeq(hashOrder, LAMBDA c : c \in s)

\* Mutant: the source's columns are not subtracted.
check_for_extra_tgt_fields_all(source_fields, target_fields, record_id) ==
    LET order == SetIter(Keys(target_fields))
    IN [i \in 1..Len(order) |-> of_extra_target_field(record_id, order[i])]

\* Mutant: the symmetric difference instead of target - source.
check_for_extra_tgt_fields_symmetric(source_fields, target_fields, record_id) ==
    LET extra_fields == (Keys(target_fields) \ Keys(source_fields))
                        \cup (Keys(source_fields) \ Keys(target_fields))
        order == SetIter(extra_fields)
    IN [i \in 1..Len(order) |-> of_extra_target_field(record_id, order[i])]

\* set(target_fields).difference(set(source_fields)), iterated as a set.
_check_for_extra_tgt_fields(source_fields, target_fields, record_id) ==
    LET extra_fields == Keys(target_fields) \ Keys(source_fields)
        order == SetIter(extra_fields)
    IN [i \in 1..Len(order) |-> of_extra_target_field(record_id, order[i])]

\* Mutant: the extra target columns are reported before the mismatches.
compare_extras_first(src, tgt, record_id) ==
    IF IsNone(record_id)
    THEN <<Raise("RecordIDMissingError")>>
    ELSE UntilRaise(_check_for_extra_tgt_fields(src, tgt, record_id)
                    \o _check_for_field_mismatch(src, tgt, record_id))

\* Mutant: a missing record_id is tolerated.
compare_no_id_check(src, tgt, record_id) ==
    UntilRaise(_check_for_field_mismatch(src, tgt, record_id)
               \o _check_for_extra_tgt_fields(src, tgt, record_id))

\* SimpleCSVRecordDiffer.compare: everything the generator produces.
compare(src, tgt, record_id) ==
    IF IsNone(record_id)
    THEN <<Raise("RecordIDMissingError")>>
    ELSE UntilRaise(_check_for_field_mismatch(src, tgt, record_id)
                    \o _check_for_extra_tgt_fields(src, tgt, record_id))

----------------------------------------------------------------------------
(* CSVReconciler.reconcile *)

\* next(iter(record)): the first column in iteration order.
_get_record_id_column(record) == record[1][1]
\* record[self._get_record_id_column(record)]
RecordId(record) == Lookup(record, _get_record_id_column(record))

\* Mutant: ids are compared the way field values are, trimmed and lowered.
IdsMatchSanitized(src_id, tgt_id) ==
    _sanitize_value(src_id) = _sanitize_value(tgt_id)

\* if src_id == tgt_id:
IdsMatch(src_id, tgt_id) == src_id = tgt_id

\* The generator body runs only while its consumer keeps calling next().
Running == consumer = "pulling"

\* Mutant: the stream is materialised at the first pull (list(stream)).
PullAll(read, stream) == Len(stream)

\* zip_longest advances a stream's iterator by one record: the number of
\* records pulled from `stream` once one more has been asked for.
PullNext(read, stream) == IF read < Len(stream) THEN read + 1 ELSE read

\* Mutant: compare() is called but its generator is never drained.
YieldFromDropped(src_record, tgt_record, record_id) ==
    /\ handed' = Append(handed, <<src_record, tgt_record, record_id, pos + 1,
                                  compare(src_record, tgt_record, record_id)>>)
    /\ pending' = <<>>
    /\ pc' = "loop"

\* yield from csv_record_differ.compare(source=.., target=.., record_id=..):
\* the call is made, in the zip_longest iteration pos + 1, and its generator
\* becomes the one being drained.
YieldFrom(src_record, tgt_record, record_id) ==
    LET items == compare(src_record, tgt_record, record_id)
    IN /\ handed' = Append(handed, <<src_record, tgt_record, record_id, pos + 1,
                                     items>>)
       /\ pending' = items
       /\ pc' = IF items = <<>> THEN "loop" ELSE "compare"

\* The generator produces `item` at a yield: a diff reaches the consumer and
\* the generator is suspended; an exception ends the generator.
Produce(item, nextPc) ==
    IF IsRaise(item)
    THEN /\ raised' = item.field
         /\ pc' = "error"
         /\ suspended' = FALSE
         /\ UNCHANGED <<out, outMeta>>
    ELSE /\ out' = Append(out, item)
         /\ outMeta' = Append(outMeta, [pos |-> pos, srcRead |-> srcRead,
                                        tgtRead |-> tgtRead])
         /\ pc' = nextPc
         /\ suspended' = TRUE
         /\ UNCHANGED raised

\* Mutant: when the ids are equal, entries buffered under that id are
\* discarded from both buffers.
StepBothPresentClearing ==
    /\ Running /\ pc = "loop"
    /\ pos < Len(source) /\ pos < Len(target)
    /\ LET src_record == source[pos + 1]
           tgt_record == target[pos + 1]
           src_id == RecordId(src_record)
           tgt_id == RecordId(tgt_record)
       IN IF IdsMatch(src_id, tgt_id)
          THEN /\ YieldFrom(src_record, tgt_record, src_id)
               /\ _unresolved_src_records' =
                      DictRemove(_unresolved_src_records, src_id)
               /\ _unresolved_tgt_records' =
                      DictRemove(_unresolved_tgt_records, src_id)
          ELSE /\ _unresolved_src_records' =
                      DictSet(_unresolved_src_records, src_id, src_record)
               /\ _unresolved_tgt_records' =
                      DictSet(_unresolved_tgt_records, tgt_id, tgt_record)
               /\ UNCHANGED <<handed, pending, pc>>
    /\ srcRead' = PullNext(srcRead, source)
    /\ tgtRead' = PullNext(tgtRead, target)
    /\ pos' = pos + 1
    /\ suspended' = FALSE
    /\ UNCHANGED <<source, target, flushIdx, out, raised, consumer, outMeta>>
    /\ UNCHANGED <<differVars, hashOrder, sideVars>>

\* Mutant: when the ids differ, the source id is looked up among the buffered
\* target records before the two records are buffered.
StepBothPresentConsulting ==
    /\ Running /\ pc = "loop"
    /\ pos < Len(source) /\ pos < Len(target)
    /\ LET src_record == source[pos + 1]
           tgt_record == target[pos + 1]
           src_id == RecordId(src_record)
           tgt_id == RecordId(tgt_record)
       IN IF IdsMatch(src_id, tgt_id)
          THEN /\ YieldFrom(src_record, tgt_record, src_id)
               /\ UNCHANGED <<_unresolved_src_records, _unresolved_tgt_records>>
          ELSE IF HasKey(_unresolved_tgt_records, src_id)
          THEN /\ YieldFrom(src_record, Lookup(_unresolved_tgt_records, src_id), src_id)
               /\ _unresolved_tgt_records' =
                      DictSet(DictRemove(_unresolved_tgt_records, src_id),
                              tgt_id, tgt_record)
               /\ UNCHANGED _unresolved_src_records
          ELSE /\ _unresolved_src_records' =
                      DictSet(_unresolved_src_records, src_id, src_record)
               /\ _unresolved_tgt_records' =
                      DictSet(_unresolved_tgt_records, tgt_id, tgt_record)
               /\ UNCHANGED <<handed, pending, pc>>
    /\ srcRead' = PullNext(srcRead, source)
    /\ tgtRead' = PullNext(tgtRead, target)
    /\ pos' = pos + 1
    /\ suspended' = FALSE
    /\ UNCHANGED <<source, target, flushIdx, out, raised, consumer, outMeta>>
    /\ UNCHANGED <<differVars, hashOrder, sideVars>>

\* One zip_longest iteration in which both streams deliver a record
\* (the branch `if src_record and tgt_record`).
StepBothPresent ==
    /\ Running /\ pc = "loop"
    /\ pos < Len(source) /\ pos < Len(target)
    /\ LET src_record == source[pos + 1]
           tgt_record == target[pos + 1]
           src_id == RecordId(src_record)
           tgt_id == RecordId(tgt_record)
       IN IF IdsMatch(src_id, tgt_id)
          THEN /\ YieldFrom(src_record, tgt_record, src_id)
               /\ UNCHANGED <<_unresolved_src_records, _unresolved_tgt_records>>
          ELSE /\ _unresolved_src_records' =
                      DictSet(_unresolved_src_records, src_id, src_record)
               /\ _unresolved_tgt_records' =
                      DictSet(_unresolved_tgt_records, tgt_id, tgt_record)
               /\ UNCHANGED <<handed, pending, pc>>
    /\ srcRead' = PullNext(srcRead, source)
    /\ tgtRead' = PullNext(tgtRead, target)
    /\ pos' = pos + 1
    /\ suspended' = FALSE
    /\ UNCHANGED <<source, target, flushIdx, out, raised, consumer, outMeta>>
    /\ UNCHANGED <<differVars, hashOrder, sideVars>>

\* Mutant: a source record without a buffered partner is reported missing at
\* once instead of being buffered.
StepSrcOnlyEager ==
    /\ Running /\ pc = "loop"
    /\ pos < Len(source) /\ pos >= Len(target)
    /\ LET src_record == source[pos + 1]
           src_id == RecordId(src_record)
       IN IF HasKey(_unresolved_tgt_records, src_id)
          THEN /\ YieldFrom(src_record, Lookup(_unresolved_tgt_records, src_id), src_id)
               /\ _unresolved_tgt_records' = DictRemove(_unresolved_tgt_records, src_id)
               /\ suspended' = FALSE
               /\ UNCHANGED <<_unresolved_src_records, out, outMeta, raised>>
          ELSE /\ Produce(of_not_in_target(src_id), "loop")
               /\ UNCHANGED <<_unresolved_src_records, _unresolved_tgt_records,
                              handed, pending>>
    /\ srcRead' = PullNext(srcRead, source) /\ pos' = pos + 1
    /\ UNCHANGED <<source, target, tgtRead, flushIdx, consumer>>
    /\ UNCHANGED <<differVars, hashOrder, sideVars>>

\* Mutant: the buffered target record is looked up but its entry stays
\* (get() in place of pop()).
StepSrcOnlyKeepsEntry ==
    /\ Running /\ pc = "loop"
    /\ pos < Len(source) /\ pos >= Len(target)
    /\ LET src_record == source[pos + 1]
           src_id == RecordId(src_record)
       IN IF HasKey(_unresolved_tgt_records, src_id)
          THEN /\ YieldFrom(src_record, Lookup(_unresolved_tgt_records, src_id), src_id)
               /\ UNCHANGED <<_unresolved_src_records, _unresolved_tgt_records>>
          ELSE /\ _unresolved_src_records' =
                      DictSet(_unresolved_src_records, src_id, src_record)
               /\ UNCHANGED <<_unresolved_tgt_records, handed, pending, pc>>
    /\ srcRead' = PullNext(srcRead, source) /\ pos' = pos + 1
    /\ suspended' = FALSE
    /\ UNCHANGED <<source, target, tgtRead, flushIdx, out, raised, consumer, outMeta>>
    /\ UNCHANGED <<differVars, hashOrder, sideVars>>

\* One zip_longest iteration after the target's end (`elif src_record`).
StepSrcOnly ==
    /\ Running /\ pc = "loop"
    /\ pos < Len(source) /\ pos >= Len(target)
    /\ LET src_record == source[pos + 1]
           src_id == RecordId(src_record)
       IN IF HasKey(_unresolved_tgt_records, src_id)
          THEN /\ YieldFrom(src_record, Lookup(_unresolved_tgt_records, src_id), src_id)
               /\ _unresolved_tgt_records' = DictRemove(_unresolved_tgt_records, src_id)
               /\ UNCHANGED _unresolved_src_records
          ELSE /\ _unresolved_src_records' =
                      DictSet(_unresolved_src_records, src_id, src_record)
               /\ UNCHANGED <<_unresolved_tgt_records, handed, pending, pc>>
    /\ srcRead' = PullNext(srcRead, source) /\ pos' = pos + 1
    /\ suspended' = FALSE
    /\ UNCHANGED <<source, target, tgtRead, flushIdx, out, raised, consumer, outMeta>>
    /\ UNCHANGED <<differVars, hashOrder, sideVars>>

\* Mutant: a target record without a buffered partner is reported missing at
\* once instead of being buffered.
StepTgtOnlyEager ==
    /\ Running /\ pc = "loop"
    /\ pos >= Len(source) /\ pos < Len(target)
    /\ LET tgt_record == target[pos + 1]
           tgt_id == RecordId(tgt_record)
       IN IF HasKey(_unresolved_src_records, tgt_id)
          THEN /\ YieldFrom(Lookup(_unresolved_src_records, tgt_id), tgt_record, tgt_id)
               /\ _unresolved_src_records' = DictRemove(_unresolved_src_records, tgt_id)
               /\ suspended' = FALSE
               /\ UNCHANGED <<_unresolved_tgt_records, out, outMeta, raised>>
          ELSE /\ Produce(of_not_in_source(tgt_id), "loop")
               /\ UNCHANGED <<_unresolved_src_records, _unresolved_tgt_records,
                              handed, pending>>
    /\ tgtRead' = PullNext(tgtRead, target) /\ pos' = pos + 1
    /\ UNCHANGED <<source, target, srcRead, flushIdx, consumer>>
    /\ UNCHANGED <<differVars, hashOrder, sideVars>>

\* Mutant: a target record without a buffered partner is passed over.
StepTgtOnlyDrops ==
    /\ Running /\ pc = "loop"
    /\ pos >= Len(source) /\ pos < Len(target)
    /\ LET tgt_record == target[pos + 1]
           tgt_id == RecordId(tgt_record)
       IN IF HasKey(_unresolved_src_records, tgt_id)
          THEN /\ YieldFrom(Lookup(_unresolved_src_records, tgt_id), tgt_record, tgt_id)
               /\ _unresolved_src_records' = DictRemove(_unresolved_src_records, tgt_id)
               /\ UNCHANGED _unresolved_tgt_records
          ELSE UNCHANGED <<_unresolved_src_records, _unresolved_tgt_records,
                           handed, pending, pc>>
    /\ tgtRead' = PullNext(tgtRead, target) /\ pos' = pos + 1
    /\ suspended' = FALSE
    /\ UNCHANGED <<source, target, srcRead, flushIdx, out, raised, consumer, outMeta>>
    /\ UNCHANGED <<differVars, hashOrder, sideVars>>

\* Mutant: the buffered source record is looked up but its entry stays
\* (get() in place of pop()).
StepTgtOnlyKeepsEntry ==
    /\ Running /\ pc = "loop"
    /\ pos >= Len(source) /\ pos < Len(target)
    /\ LET tgt_record == target[pos + 1]
           tgt_id == RecordId(tgt_record)
       IN IF HasKey(_unresolved_src_records, tgt_id)
          THEN /\ YieldFrom(Lookup(_unresolved_src_records, tgt_id), tgt_record, tgt_id)
               /\ UNCHANGED <<_unresolved_src_records, _unresolved_tgt_records>>
          ELSE /\ _unresolved_tgt_records' =
                      DictSet(_unresolved_tgt_records, tgt_id, tgt_record)
               /\ UNCHANGED <<_unresolved_src_records, handed, pending, pc>>
    /\ tgtRead' = PullNext(tgtRead, target) /\ pos' = pos + 1
    /\ suspended' = FALSE
    /\ UNCHANGED <<source, target, srcRead, flushIdx, out, raised, consumer, outMeta>>
    /\ UNCHANGED <<differVars, hashOrder, sideVars>>

\* One zip_longest iteration after the source's end (`elif tgt_record`).
StepTgtOnly ==
    /\ Running /\ pc = "loop"
    /\ pos >= Len(source) /\ pos < Len(target)
    /\ LET tgt_record == target[pos + 1]
           tgt_id == RecordId(tgt_record)
       IN IF HasKey(_unresolved_src_records, tgt_id)
          THEN /\ YieldFrom(Lookup(_unresolved_src_records, tgt_id), tgt_record, tgt_id)
               /\ _unresolved_src_records' = DictRemove(_unresolved_src_records, tgt_id)
               /\ UNCHANGED _unresolved_tgt_records
          ELSE /\ _unresolved_tgt_records' =
                      DictSet(_unresolved_tgt_records, tgt_id, tgt_record)
               /\ UNCHANGED <<_unresolved_src_records, handed, pending, pc>>
    /\ tgtRead' = PullNext(tgtRead, target) /\ pos' = pos + 1
    /\ suspended' = FALSE
    /\ UNCHANGED <<source, target, srcRead, flushIdx, out, raised, consumer, outMeta>>
    /\ UNCHANGED <<differVars, hashOrder, sideVars>>

\* Mutant: the loop ends as soon as one stream is exhausted (zip in place of
\* zip_longest).
StepExhaustedEither ==
    /\ Running /\ pc = "loop"
    /\ pos >= Len(source) \/ pos >= Len(target)
    /\ pc' = "flush_src" /\ flushIdx' = 1
    /\ suspended' = FALSE
    /\ UNCHANGED <<source, target, srcRead, tgtRead, pos, _unresolved_src_records,
                   _unresolved_tgt_records, pending, out, raised, consumer,
                   handed, outMeta>>
    /\ UNCHANGED <<differVars, hashOrder, sideVars>>

\* zip_longest finds both streams exhausted: the for loop ends.
StepExhausted ==
    /\ Running /\ pc = "loop"
    /\ pos >= Len(source) /\ pos >= Len(target)
    /\ pc' = "flush_src" /\ flushIdx' = 1
    /\ suspended' = FALSE
    /\ UNCHANGED <<source, target, srcRead, tgtRead, pos, _unresolved_src_records,
                   _unresolved_tgt_records, pending, out, raised, consumer,
                   handed, outMeta>>
    /\ UNCHANGED <<differVars, hashOrder, sideVars>>

\* Mutant: an exception of the differ is swallowed and the loop goes on.
YieldFromCompareSwallow ==
    /\ Running /\ pc = "compare" /\ pending # <<>>
    /\ IF IsRaise(Head(pending))
       THEN /\ pc' = "loop" /\ suspended' = FALSE
            /\ UNCHANGED <<out, outMeta, raised>>
       ELSE Produce(Head(pending), IF Tail(pending) = <<>> THEN "loop" ELSE "compare")
    /\ pending' = Tail(pending)
    /\ UNCHANGED <<source, target, srcRead, tgtRead, pos, _unresolved_src_records,
                   _unresolved_tgt_records, flushIdx, consumer, handed>>
    /\ UNCHANGED <<differVars, hashOrder, sideVars>>

\* One advance inside `yield from compare(...)`: the next diff of the pair is
\* passed on, or the differ's exception leaves reconcile as it is.
YieldFromCompare ==
    /\ Running /\ pc = "compare" /\ pending # <<>>
    /\ Produce(Head(pending), IF Tail(pending) = <<>> THEN "loop" ELSE "compare")
    /\ pending' = Tail(pending)
    /\ UNCHANGED <<source, target, srcRead, tgtRead, pos, _unresolved_src_records,
                   _unresolved_tgt_records, flushIdx, consumer, handed>>
    /\ UNCHANGED <<differVars, hashOrder, sideVars>>

\* Mutant: the source-side buffer is never flushed.
FlushSrcSkip ==
    /\ Running /\ pc = "flush_src"
    /\ pc' = "flush_tgt" /\ flushIdx' = 1 /\ suspended' = FALSE
    /\ UNCHANGED <<out, outMeta, raised>>
    /\ UNCHANGED <<source, target, srcRead, tgtRead, pos, _unresolved_src_records,
                   _unresolved_tgt_records, pending, consumer, handed>>
    /\ UNCHANGED <<differVars, hashOrder, sideVars>>

\* for src_id in self._unresolved_src_records: yield CSVDiff.of_not_in_target(..)
FlushSrc ==
    /\ Running /\ pc = "flush_src"
    /\ IF flushIdx <= Len(_unresolved_src_records)
       THEN /\ Produce(of_not_in_target(_unresolved_src_records[flushIdx][1]), "flush_src")
            /\ flushIdx' = flushIdx + 1
       ELSE /\ pc' = "flush_tgt" /\ flushIdx' = 1 /\ suspended' = FALSE
            /\ UNCHANGED <<out, outMeta, raised>>
    /\ UNCHANGED <<source, target, srcRead, tgtRead, pos, _unresolved_src_records,
                   _unresolved_tgt_records, pending, consumer, handed>>
    /\ UNCHANGED <<differVars, hashOrder, sideVars>>

\* for tgt_id in self._unresolved_tgt_records: yield CSVDiff.of_not_in_source(..)
\* and then `return ()`.
FlushTgt ==
    /\ Running /\ pc = "flush_tgt"
    /\ IF flushIdx <= Len(_unresolved_tgt_records)
       THEN /\ Produce(of_not_in_source(_unresolved_tgt_records[flushIdx][1]), "flush_tgt")
            /\ flushIdx' = flushIdx + 1
       ELSE /\ pc' = "done" /\ suspended' = FALSE
            /\ UNCHANGED <<out, outMeta, raised, flushIdx>>
    /\ UNCHANGED <<source, target, srcRead, tgtRead, pos, _unresolved_src_records,
                   _unresolved_tgt_records, pending, consumer, handed>>
    /\ UNCHANGED <<differVars, hashOrder, sideVars>>

\* The consumer ceases to advance the sequence; that is possible only while
\* the generator is suspended (before its start, or at a yield).
ConsumerStop ==
    /\ Running /\ suspended /\ pc \notin {"done", "error"}
    /\ consumer' = "stopped"
    /\ UNCHANGED <<source, target, srcRead, tgtRead, pos, _unresolved_src_records,
                   _unresolved_tgt_records, pc, pending, flushIdx, out, raised,
                   suspended, handed, outMeta>>
    /\ UNCHANGED <<differVars, hashOrder, sideVars>>

\* Mutant: a next() call on the ended sequence runs reconcile's body anew.
AdvanceEndedRestarts ==
    /\ pc \in {"done", "error"} /\ consumer \in {"pulling", "at_end"}
    /\ consumer' = "pulling"
    /\ srcRead' = 0 /\ tgtRead' = 0 /\ pos' = 0
    /\ pc' = "loop" /\ pending' = <<>> /\ flushIdx' = 1
    /\ raised' = NoExc /\ suspended' = FALSE
    /\ UNCHANGED <<source, target, _unresolved_src_records,
                   _unresolved_tgt_records, out, handed, outMeta>>
    /\ UNCHANGED <<differVars, hashOrder, sideVars>>

\* The consumer calls next() on the generator after it has returned or has
\* been left by an exception: a finished generator raises StopIteration and
\* runs no code.
AdvanceEnded ==
    /\ pc \in {"done", "error"} /\ consumer \in {"pulling", "at_end"}
    /\ consumer' = "at_end"
    /\ UNCHANGED <<source, target, srcRead, tgtRead, pos, _unresolved_src_records,
                   _unresolved_tgt_records, pc, pending, flushIdx, out, raised,
                   suspended, handed, outMeta>>
    /\ UNCHANGED <<differVars, hashOrder, sideVars>>

----------------------------------------------------------------------------
(* A direct use of SimpleCSVRecordDiffer.compare *)

\* compare(source, target, record_id=...) is called: a generator object is
\* made, its body has not run yet.
DifferCall ==
    /\ dPc = "idle"
    /\ dPending' = compare(dSource, dTarget, dRecordId)
    /\ dPc' = "iterating"
    /\ UNCHANGED <<dSource, dTarget, dRecordId, dOut, dRaised>>
    /\ UNCHANGED <<engineVars, hashOrder, sideVars>>

\* The caller advances the generator once.
DifferAdvance ==
    /\ dPc = "iterating"
    /\ IF dPending = <<>>
       THEN /\ dPc' = "done"
            /\ UNCHANGED <<dPending, dOut, dRaised>>
       ELSE IF IsRaise(Head(dPending))
       THEN /\ dPc' = "error"
            /\ dRaised' = Head(dPending).field
            /\ dPending' = <<>>
            /\ UNCHANGED dOut
       ELSE /\ dOut' = Append(dOut, Head(dPending))
            /\ dPending' = Tail(dPending)
            /\ UNCHANGED <<dPc, dRaised>>
    /\ UNCHANGED <<dSource, dTarget, dRecordId>>
    /\ UNCHANGED <<engineVars, hashOrder, sideVars>>

\* reconcile() is invoked once more on the same CSVReconciler after a
\* complete run.  The call makes new DictReaders over self._source and
\* self._target: they deliver the records again if the iterables can be
\* iterated again (lists of lines), and nothing if they are used-up
\* iterators (files).  The generator starts afresh; the instance's
\* attributes are what the run before left.
ReconcileAgain ==
    /\ Running /\ pc = "done"
    /\ \E again \in BOOLEAN :
          /\ source' = IF again THEN source ELSE <<>>
          /\ target' = IF again THEN target ELSE <<>>
    /\ srcRead' = 0 /\ tgtRead' = 0 /\ pos' = 0
    /\ pc' = "loop" /\ pending' = <<>> /\ flushIdx' = 1
    /\ out' = <<>> /\ outMeta' = <<>> /\ handed' = <<>>
    /\ raised' = NoExc /\ suspended' = TRUE
    /\ UNCHANGED <<_unresolved_src_records, _unresolved_tgt_records, consumer>>
    /\ UNCHANGED <<differVars, hashOrder, sideVars>>

----------------------------------------------------------------------------
(* Two CSVReconciler instances whose generators are advanced in turn *)

\* Mutant: one dict object is the default of the attribute in every instance.
BufferObjectShared(instance, side) == <<0, side>>

\* field(factory=dict, init=False): the dict object that is the buffer `side`
\* of `instance`; the factory is called once per instance.
BufferObject(instance, side) == <<instance, side>>

\* The state of the instance the engine variables stand for.
EngineState ==
    [source |-> source, target |-> target, srcRead |-> srcRead,
     tgtRead |-> tgtRead, pos |-> pos,
     _unresolved_src_records |-> _unresolved_src_records,
     _unresolved_tgt_records |-> _unresolved_tgt_records,
     pc |-> pc, pending |-> pending, flushIdx |-> flushIdx, out |-> out,
     raised |-> raised, suspended |-> suspended, handed |-> handed,
     outMeta |-> outMeta]

\* A new instance over the streams s and t with its generator just made.
NewInstance(s, t) ==
    [source |-> s, target |-> t, srcRead |-> 0, tgtRead |-> 0, pos |-> 0,
     _unresolved_src_records |-> <<>>, _unresolved_tgt_records |-> <<>>,
     pc |-> "loop", pending |-> <<>>, flushIdx |-> 1, out |-> <<>>,
     raised |-> NoExc, suspended |-> TRUE, handed |-> <<>>, outMeta |-> <<>>]

\* The caller turns to the other instance's generator.  That is possible
\* while the generator advanced so far is suspended or has ended.  Each
\* instance goes on with its own attributes; a buffer is carried over only
\* if it is the same dict object in both instances.
Switch ==
    /\ Running
    /\ suspended \/ pc \in {"done", "error"}
    /\ other.pc \notin {"done", "error"}
    /\ active' = 3 - active
    /\ other' = EngineState
    /\ source' = other.source /\ target' = other.target
    /\ srcRead' = other.srcRead /\ tgtRead' = other.tgtRead /\ pos' = other.pos
    /\ _unresolved_src_records' =
          IF BufferObject(3 - active, "src") = BufferObject(active, "src")
          THEN _unresolved_src_records ELSE other._unresolved_src_records
    /\ _unresolved_tgt_records' =
          IF BufferObject(3 - active, "tgt") = BufferObject(active, "tgt")
          THEN _unresolved_tgt_records ELSE other._unresolved_tgt_records
    /\ pc' = other.pc /\ pending' = other.pending /\ flushIdx' = other.flushIdx
    /\ out' = other.out /\ raised' = other.raised
    /\ suspended' = other.suspended
    /\ handed' = other.handed /\ outMeta' = other.outMeta
    /\ UNCHANGED consumer
    /\ UNCHANGED <<differVars, hashOrder, projVars, writerVars, appVars, dFirst>>

----------------------------------------------------------------------------
(* DiffWriters: CSVDiffWriter, PrettyDiffWriter, NoOpDiffWriter *)

CSVDiffKinds == {EXTRA_TGT_FIELD, FIELD_MISMATCH, NOT_IN_SOURCE, NOT_IN_TARGET}
\* A Diff of another class than CSVDiff.
OtherDiff == [kind |-> "OtherDiff", record_id |-> None, field |-> NoneCol,
              source_value |-> None, target_value |-> None]
\* isinstance(diff, CSVDiff)
IsCSVDiff(diff) == diff.kind \in CSVDiffKinds

\* A row is a sequence of cells, a cell is a text; a printed line is a row of
\* one cell.
\* attribute.name for attribute in attrs.fields(CSVDiff)
FieldNames == <<"_kind", "_record_id", "_field", "_source_value", "_target_value">>
\* csv.DictWriter.writeheader(): the row of the field names.
HeaderRow == [i \in DOMAIN FieldNames |-> <<FieldNames[i]>>]
\* The csv writer's cell for a value: None is written as the empty string.
Cell(value) == IF IsNone(value) THEN <<>> ELSE value.chars
CellOfColumn(column) == IF column = NoneCol THEN <<>> ELSE <<column>>
\* csv.DictWriter.writerow(attrs.asdict(diff))
DiffRow(diff) ==
    << <<diff.kind>>, Cell(diff.record_id), CellOfColumn(diff.field),
       Cell(diff.source_value), Cell(diff.target_value) >>
\* PrettyDiffWriter._print_diff: four secho() calls.
_print_diff(diff) ==
    << << <<diff.kind>> >>,
       << <<"- ">> \o expected(diff) >>,
       << <<"+ ">> \o found(diff) >>,
       << <<"--------------\n">> >> >>

\* Mutant: the writer is constructed without writing a header.
attrs_post_init_without_header(kind) == <<>>

\* What constructing a writer of class `kind` writes: CSVDiffWriter's
\* __attrs_post_init__ calls writeheader(), the other classes write nothing.
attrs_post_init(kind) == IF kind = "csv" THEN <<HeaderRow>> ELSE <<>>

\* Mutant: CSVDiffWriter lets every diff pass.
UnsupportedNever(kind, diff) == FALSE

\* if not isinstance(diff, CSVDiff): raise UnsupportedDiffTypeError(..)
Unsupported(kind, diff) == kind = "csv" /\ ~IsCSVDiff(diff)

\* What the body of write()'s for loop writes for a diff it accepts.
Rows(kind, diff) ==
    CASE kind = "csv" -> IF IsCSVDiff(diff) THEN <<DiffRow(diff)>> ELSE <<>>
      [] kind = "pretty" -> _print_diff(diff)
      [] OTHER -> <<>>

\* Mutant: every writer iterates the diffs it is given.
LoopsAlways(kind) == TRUE

\* Whether write() of a writer of class `kind` iterates its argument: the
\* body of FailingDiffWriter.write is a raise statement only.
Loops(kind) == kind # "failing"

\* The writer is constructed on its writable.
WriterNew ==
    /\ wPc = "new"
    /\ written' = written \o attrs_post_init(wKind)
    /\ wPc' = "ready"
    /\ UNCHANGED <<wKind, wFeed, wCalls, wGiven, wTaken, wHistory>>
    /\ UNCHANGED <<engineVars, differVars, hashOrder, projVars, instanceVars,
                   appVars, dFirst>>

\* write() ends with `outcome` ("return", or the exception leaving it) after
\* taking `taken` items; the writer can be called again.
Finish(outcome, taken) ==
    /\ wHistory' = Append(wHistory, [outcome |-> outcome, given |-> wGiven,
                                     taken |-> taken, end |-> Len(written)])
    /\ wPc' = "ready"

\* One iteration of `for diff in diffs:` with the item the iterable delivered.
Consume(diff) ==
    /\ wTaken' = wTaken + 1
    /\ IF Unsupported(wKind, diff)
       THEN /\ Finish("UnsupportedDiffTypeError", wTaken + 1)
            /\ UNCHANGED written
       ELSE /\ written' = written \o Rows(wKind, diff)
            /\ UNCHANGED <<wPc, wHistory>>

\* writer.write(diffs) is called with the next list the caller has.
WriteCall ==
    /\ wPc = "ready" /\ wCalls # <<>>
    /\ wGiven' = Head(wCalls) /\ wCalls' = Tail(wCalls)
    /\ wFeed' = "list" /\ wTaken' = 0 /\ wPc' = "writing"
    /\ UNCHANGED <<wKind, wHistory, written>>
    /\ UNCHANGED <<engineVars, differVars, hashOrder, projVars, instanceVars,
                   appVars, dFirst>>

\* The for loop of write() over a list: its next iteration, or its end.
WriteNext ==
    /\ wPc = "writing" /\ wFeed = "list"
    /\ Loops(wKind)
    /\ IF wTaken = Len(wGiven)
       THEN /\ Finish("return", wTaken)
            /\ UNCHANGED <<wTaken, written>>
       ELSE Consume(wGiven[wTaken + 1])
    /\ UNCHANGED <<wKind, wFeed, wCalls, wGiven>>
    /\ UNCHANGED <<engineVars, differVars, hashOrder, projVars, instanceVars,
                   appVars, dFirst>>

\* usecases.run: writer.write(reconciler.reconcile()); the generator object is
\* made, its body has not run yet.
RunWrite ==
    /\ wPc = "ready" /\ wHistory = <<>>
    /\ wFeed' = "reconcile" /\ wTaken' = 0 /\ wPc' = "writing"
    /\ UNCHANGED <<wKind, wCalls, wGiven, wHistory, written>>
    /\ UNCHANGED <<engineVars, differVars, hashOrder, projVars, instanceVars,
                   appVars, dFirst>>

\* The for loop of write() asks the generator for its next diff: the
\* generator body runs, up to its next yield or its end.
SinkPulls ==
    /\ wPc = "writing" /\ wFeed = "reconcile"
    /\ Loops(wKind)
    /\ wTaken = Len(out)

\* Mutant: write() returns after the first diff.
SinkTakeAndReturn ==
    /\ wPc = "writing" /\ wFeed = "reconcile"
    /\ wTaken < Len(out)
    /\ wTaken' = wTaken + 1
    /\ written' = written \o Rows(wKind, out[wTaken + 1])
    /\ wHistory' = Append(wHistory, [outcome |-> "return", given |-> wGiven,
                                     taken |-> wTaken + 1,
                                     end |-> Len(written')])
    /\ wPc' = "ready"
    /\ UNCHANGED <<wKind, wFeed, wCalls, wGiven>>
    /\ UNCHANGED <<engineVars, differVars, hashOrder, projVars, instanceVars,
                   appVars, dFirst>>

\* The loop body runs on the diff the generator yielded.
SinkTake ==
    /\ wPc = "writing" /\ wFeed = "reconcile"
    /\ wTaken < Len(out)
    /\ Consume(out[wTaken + 1])
    /\ UNCHANGED <<wKind, wFeed, wCalls, wGiven>>
    /\ UNCHANGED <<engineVars, differVars, hashOrder, projVars, instanceVars,
                   appVars, dFirst>>

\* The generator has ended: write() returns, or the exception that left
\* reconcile leaves write().
SinkEnd ==
    /\ SinkPulls /\ pc \in {"done", "error"}
    /\ Finish(IF pc = "done" THEN "return" ELSE raised, wTaken)
    /\ UNCHANGED <<wKind, wFeed, wCalls, wGiven, wTaken, written>>
    /\ UNCHANGED <<engineVars, differVars, hashOrder, projVars, instanceVars,
                   appVars, dFirst>>

----------------------------------------------------------------------------
(* lib.common: FailingDiffWriter and NoOpReconciler *)

\* A callable (a class, a factory classmethod) as a value, by its name.
Callable(name) == [kind |-> "callable", chars |-> <<name>>]
\* Python's truth test of a str | None value (`value or default`).
Falsy(value) == IsNone(value) \/ value = Str(<<>>)

\* The attrs fields of a FailingDiffWriter.
FailingDiffWriter(exc_factory, err_message) ==
    [exc_factory |-> exc_factory, err_message |-> err_message]
\* FailingDiffWriter.of(writable, exc_factory=None, err_message=None)
FailingDiffWriter_of(exc_factory, err_message) ==
    FailingDiffWriter(
        IF IsNone(exc_factory) THEN Callable("ReconcilerError") ELSE exc_factory,
        IF Falsy(err_message) THEN Str(<<"Failed as it should!!!">>)
                              ELSE err_message)
\* exc_factory(err_message): an exception of the factory's class made from
\* the one argument.
BuildException(exc_factory, err_message) ==
    [cls |-> exc_factory.chars[1], arg |-> err_message]
NoFailure == [cls |-> NoExc, arg |-> None]

\* FailingDiffWriter.write: raise self._exc_factory(self._err_message)
FailingWrite ==
    /\ wPc = "writing" /\ wKind = "failing"
    /\ wFailure' = BuildException(wExc.exc_factory, wExc.err_message)
    /\ Finish(wExc.exc_factory.chars[1], wTaken)
    /\ UNCHANGED <<wKind, wFeed, wCalls, wGiven, wTaken, written>>
    /\ UNCHANGED <<conf, setups, lastUse, runPc, runRaised, rKind, returned, wExc>>
    /\ UNCHANGED <<engineVars, differVars, hashOrder, projVars, instanceVars, dFirst>>

\* A returned tuple, as a value.
Tuple(items) == [kind |-> "tuple", items |-> items]

\* Mutant: the placeholder reconciler reads both datasets to their ends and
\* reports every source record as missing.
NoOpReconcileReading ==
    /\ rKind = "noop"
    /\ returned' = Append(returned,
           Tuple([i \in DOMAIN source |-> of_not_in_target(RecordId(source[i]))]))
    /\ srcRead' = Len(source) /\ tgtRead' = Len(target)
    /\ UNCHANGED <<source, target, pos, _unresolved_src_records,
                   _unresolved_tgt_records, pc, pending, flushIdx, out, raised,
                   consumer, suspended, handed, outMeta>>
    /\ UNCHANGED <<conf, setups, lastUse, runPc, runRaised, rKind, wExc, wFailure>>
    /\ UNCHANGED <<differVars, hashOrder, projVars, writerVars, instanceVars, dFirst>>

\* NoOpReconciler.reconcile(): return ().  The instance NoOpReconciler.of(source,
\* target) made holds neither dataset.
NoOpReconcile ==
    /\ rKind = "noop"
    /\ returned' = Append(returned, Tuple(<<>>))
    /\ UNCHANGED <<conf, setups, lastUse, runPc, runRaised, rKind, wExc, wFailure>>
    /\ UNCHANGED <<engineVars, differVars, hashOrder, projVars, writerVars,
                   instanceVars, dFirst>>

----------------------------------------------------------------------------
(* app: the Config classes, the global conf and setup() *)

\* _NotSetup(err_msg)
NotSetup(err_msg) ==
    [cls |-> "_NotSetup", err_msg |-> err_msg, diff_writer_factory |-> None,
     reconciler_factory |-> None, config |-> <<>>]
\* _ConfigImp(diff_writer_factory, reconciler_factory, config)
ConfigImp(diff_writer_factory, reconciler_factory, config) ==
    [cls |-> "_ConfigImp", err_msg |-> None,
     diff_writer_factory |-> diff_writer_factory,
     reconciler_factory |-> reconciler_factory, config |-> config]
\* Config.of(diff_writer_factory=None, reconciler_factory=None, config=None);
\* an absent config is given as the empty mapping, which the code treats alike.
Config_of(diff_writer_factory, reconciler_factory, config) ==
    ConfigImp(
        IF IsNone(diff_writer_factory) THEN Callable("NoOpDiffWriter.of")
                                       ELSE diff_writer_factory,
        IF IsNone(reconciler_factory) THEN Callable("NoOpReconciler.of")
                                      ELSE reconciler_factory,
        config)
\* Config.of_awaiting_setup(err_msg=None)
Config_of_awaiting_setup(err_msg) == NotSetup(err_msg)

\* What a use of a Config gives: a value, or an exception.
Returning(value) == [raises |-> NoExc, value |-> value]
Raising(exc) == [raises |-> exc, value |-> None]
\* _NotSetup._raise
_raise(err_msg) == Raising("NotSetupError")

\* The property Config.diff_writer_factory
diff_writer_factory(c) ==
    IF c.cls = "_NotSetup" THEN _raise(c.err_msg)
    ELSE Returning(c.diff_writer_factory)
\* The property Config.reconciler_factory
reconciler_factory(c) ==
    IF c.cls = "_NotSetup" THEN _raise(c.err_msg)
    ELSE Returning(c.reconciler_factory)
\* Config.get(setting)
get(c, setting) ==
    IF c.cls = "_NotSetup" THEN _raise(c.err_msg)
    ELSE IF ~HasKey(c.config, setting) THEN Raising("NoSuchSettingError")
    ELSE Returning(Lookup(c.config, setting))
\* Config.get_or_default(setting, default)
get_or_default(c, setting, default) ==
    IF c.cls = "_NotSetup" THEN _raise(c.err_msg)
    ELSE Returning(Get(c.config, setting, default))

\* A use of a Config, by the name of the property or method.
Use(c, op, setting, default) ==
    CASE op = "diff_writer_factory" -> diff_writer_factory(c)
      [] op = "reconciler_factory" -> reconciler_factory(c)
      [] op = "get" -> get(c, setting)
      [] OTHER -> get_or_default(c, setting, default)

\* usecases.run is a synchronous call: nothing else of the program runs
\* between its start and its end.
RunOver == runPc \in {"idle", "failed", "done"}

\* Mutant: setup() binds a local name (no `global conf`).
setup_local(config) ==
    /\ RunOver
    /\ setups' = <<config>>
    /\ UNCHANGED <<conf, lastUse, runPc, runRaised, rKind, returned, wExc, wFailure>>
    /\ UNCHANGED <<engineVars, differVars, hashOrder, projVars, writerVars,
                   instanceVars, dFirst>>

\* app.setup(config): global conf; conf = config
setup(config) ==
    /\ RunOver
    /\ conf' = config
    /\ setups' = <<config>>
    /\ UNCHANGED <<lastUse, runPc, runRaised, rKind, returned, wExc, wFailure>>
    /\ UNCHANGED <<engineVars, differVars, hashOrder, projVars, writerVars,
                   instanceVars, dFirst>>

\* Where a use names no setting.
NoSetting == "<no setting>"
\* The record of a use of app.conf made now: what was asked, the setup()
\* calls made before it, what it gave.
UseOf(op, setting, default) ==
    [op |-> op, setting |-> setting, default |-> default, after |-> setups,
     result |-> Use(conf, op, setting, default)]

\* Some code reads app.conf.<op>: the attribute conf of the module is looked
\* up at that moment.
UseConf(op, setting, default) ==
    /\ RunOver
    /\ lastUse' = <<UseOf(op, setting, default)>>
    /\ UNCHANGED <<conf, setups, runPc, runRaised, rKind, returned, wExc, wFailure>>
    /\ UNCHANGED <<engineVars, differVars, hashOrder, projVars, writerVars,
                   instanceVars, dFirst>>

----------------------------------------------------------------------------
(* cli.usecases.run *)

\* The class whose `of` a factory is.
WriterKind(factory) ==
    CASE factory = Callable("CSVDiffWriter.of") -> "csv"
      [] factory = Callable("PrettyDiffWriter.of") -> "pretty"
      [] factory = Callable("FailingDiffWriter.of") -> "failing"
      [] OTHER -> "noop"
ReconcilerKind(factory) ==
    IF factory = Callable("CSVReconciler.of") THEN "csv" ELSE "noop"

\* run(source, target, writable) up to the construction of the writer:
\*   reconciler = app.conf.reconciler_factory(source, target)
\*   writer = app.conf.diff_writer_factory(writable)
\* The first line ends the run if the property raises.
RunStart ==
    /\ runPc = "idle"
    /\ LET rf == reconciler_factory(conf)
           wf == diff_writer_factory(conf)
       IN IF rf.raises # NoExc
          THEN /\ runPc' = "failed" /\ runRaised' = rf.raises
               /\ lastUse' = <<UseOf("reconciler_factory", NoSetting, None)>>
               /\ UNCHANGED <<rKind, wKind, wExc>>
          ELSE IF wf.raises # NoExc
          THEN /\ runPc' = "failed" /\ runRaised' = wf.raises
               /\ lastUse' = <<UseOf("diff_writer_factory", NoSetting, None)>>
               /\ rKind' = ReconcilerKind(rf.value)
               /\ UNCHANGED <<wKind, wExc>>
          ELSE /\ runPc' = "started"
               /\ lastUse' = <<UseOf("diff_writer_factory", NoSetting, None)>>
               /\ rKind' = ReconcilerKind(rf.value)
               /\ wKind' = WriterKind(wf.value)
               /\ wExc' = IF WriterKind(wf.value) = "failing"
                          THEN FailingDiffWriter_of(None, None) ELSE wExc
               /\ UNCHANGED runRaised
    /\ UNCHANGED <<conf, setups, returned, wFailure>>
    /\ UNCHANGED <<wPc, wFeed, wCalls, wGiven, wTaken, wHistory, written>>
    /\ UNCHANGED <<engineVars, differVars, hashOrder, projVars, instanceVars, dFirst>>

\* run's last line with a NoOpReconciler: writer.write(reconciler.reconcile())
\* is given the tuple reconcile() returned.
RunWriteNoOp ==
    /\ wPc = "ready" /\ wHistory = <<>> /\ rKind = "noop"
    /\ returned' = Append(returned, Tuple(<<>>))
    /\ wGiven' = <<>> /\ wFeed' = "list" /\ wTaken' = 0 /\ wPc' = "writing"
    /\ UNCHANGED <<wKind, wCalls, wHistory, written>>
    /\ UNCHANGED <<conf, setups, lastUse, runPc, runRaised, rKind, wExc, wFailure>>
    /\ UNCHANGED <<engineVars, differVars, hashOrder, projVars, instanceVars, dFirst>>

\* write() is over and so is run: it returns, or the exception that left
\* write() leaves it.
RunEnd ==
    /\ runPc = "started" /\ wPc = "ready" /\ wHistory # <<>>
    /\ LET outcome == wHistory[Len(wHistory)].outcome
       IN IF outcome = "return"
          THEN runPc' = "done" /\ UNCHANGED runRaised
          ELSE runPc' = "failed" /\ runRaised' = outcome
    /\ UNCHANGED <<conf, setups, lastUse, rKind, returned, wExc, wFailure>>
    /\ UNCHANGED <<engineVars, differVars, hashOrder, projVars, writerVars,
                   instanceVars, dFirst>>

----------------------------------------------------------------------------
(* Inputs *)

\* Longest source and target streams explored.
MaxSrcRecs == 3
MaxTgtRecs == 2
\* Number of column names the records of a direct compare() call draw on.
NumCols == 2

ColumnNames == <<"id", "name", "age">>
\* Two iteration orders a set of column names can have in an interpreter.
ColumnOrder == ColumnNames \o <<NoneCol>>
Reverse(s) == [i \in 1..Len(s) |-> s[Len(s) + 1 - i]]
HashOrders == {ColumnOrder, Reverse(ColumnOrder)}

\* The sequences over S of length at most n.
SeqsUpTo(S, n) == UNION {[1..k -> S] : k \in 0..n}

\* A row of a file with header id,name.
Row(id, name) == << <<"id", Str(id)>>, <<"name", name>> >>
\* Such a row with more cells than the header has columns.
LongRow(id, name) == Row(id, name) \o << <<NoneCol, RestList>> >>

\* The rows the streams are made of: three ids, two of which differ by case
\* only; two rows of one id that differ in a field; a row shorter than the
\* header (its missing cell is None) and a row longer than it.
EngineRecords ==
    { Row(<<"a">>, Str(<<"a">>)),
      Row(<<"A">>, Str(<<"a">>)),
      Row(<<"b">>, None),
      Row(<<"a">>, Str(<<"b">>)),
      LongRow(<<"a">>, Str(<<"b">>)) }

\* Values of the records given to a direct compare() call: absent, empty,
\* and two strings equal up to whitespace and case.
DifferValues == {None, Str(<<>>), Str(<<"a">>), Str(<<" ", "A">>)}
DifferColumns == {ColumnNames[i] : i \in 1..NumCols}
\* Ordered mappings: every order of every subset of the columns.
OrderedRecords ==
    {r \in SeqsUpTo(DifferColumns \X DifferValues, NumCols) :
        \A i, j \in DOMAIN r : i # j => r[i][1] # r[j][1]}
\* Mappings whose order plays no role: the columns in the header's order.
CanonicalRecords ==
    {r \in OrderedRecords :
        \A i, j \in DOMAIN r : i < j =>
            \E m, n \in 1..NumCols : m < n /\ ColumnNames[m] = r[i][1]
                                           /\ ColumnNames[n] = r[j][1]}

EngineIdle ==
    /\ source = <<>> /\ target = <<>>
    /\ srcRead = 0 /\ tgtRead = 0 /\ pos = 0
    /\ _unresolved_src_records = <<>> /\ _unresolved_tgt_records = <<>>
    /\ pc = "loop" /\ pending = <<>> /\ flushIdx = 1
    /\ out = <<>> /\ raised = NoExc
    /\ consumer = "pulling" /\ suspended = TRUE
    /\ handed = <<>> /\ outMeta = <<>>

DifferIdle ==
    /\ dPc = "idle" /\ dPending = <<>> /\ dOut = <<>> /\ dRaised = NoExc
DifferUnused ==
    /\ DifferIdle /\ dSource = <<>> /\ dTarget = <<>> /\ dRecordId = None

\* The fields a CSVDiff is made of in a direct construction.
DiffIds == {Str(<<"a">>), Str(<<" ", "A">>)}
DiffFields == {NoneCol, "id", "name"}
CSVDiffs ==
    {CSVDiff(kind, record_id, column, source_value, target_value) :
        kind \in CSVDiffKinds, record_id \in DiffIds, column \in DiffFields,
        source_value \in DifferValues, target_value \in DifferValues}
ProjIdle ==
    /\ pDiff = of_not_in_target(Str(<<"a">>))
    /\ pExpected = Unread /\ pFound = Unread

\* Most write() calls made on one writer, and longest list passed to one.
MaxCalls == 2
MaxDiffs == 2
\* The diffs the lists passed to write() are made of.
WriterDiffs ==
    { OtherDiff,
      of_not_in_target(Str(<<"a">>)),
      of_field_mismatch(Str(<<"b">>), "name", None, Str(<<"b">>)) }
\* The rows of the streams a writer's reconcile() run is given.
SinkRecords ==
    { Row(<<"a">>, Str(<<"a">>)),
      Row(<<"b">>, None),
      LongRow(<<"a">>, Str(<<"b">>)) }
WriterIdle ==
    /\ wKind = "noop" /\ wPc = "new" /\ wFeed = "list"
    /\ wCalls = <<>> /\ wGiven = <<>> /\ wTaken = 0
    /\ wHistory = <<>> /\ written = <<>>

\* Longest source and target streams of each of two instances.
MaxPairSrcRecs == 2
MaxPairTgtRecs == 1
\* The rows their streams are made of.
PairSrcRecords == {Row(<<"a">>, Str(<<"a">>)), Row(<<"b">>, None)}
PairTgtRecords == {Row(<<"a">>, Str(<<"b">>)), Row(<<"b">>, None)}
InstanceIdle ==
    /\ active = 1 /\ other = NewInstance(<<>>, <<>>)

\* The records of a compare() call that is repeated: rows of a source file
\* with header id or id,name and of a target file with header id,name or
\* id,name,age.
TwiceSources ==
    { << <<"id", Str(<<"a">>)>> >>,
      Row(<<"a">>, Str(<<"a">>)),
      Row(<<"a">>, Str(<<"b">>)) }
TwiceTargets ==
    {Row(<<"a">>, name) : name \in {None, Str(<<"a">>)}}
    \cup {Row(<<"a">>, name) \o << <<"age", age>> >> :
             name \in {None, Str(<<"a">>)}, age \in {None, Str(<<"b">>)}}
    \cup {LongRow(<<"a">>, Str(<<"a">>))}

\* Longest stream of the runs in which single steps are looked at.
MaxStepRecs == 2
\* A row of a file with header name,id: its first column is name.
NameFirstRow(name, id) == << <<"name", Str(name)>>, <<"id", Str(id)>> >>
\* The rows of those runs.  Source file: header id,name, ids a, b and " a",
\* and an overlong row.  Target file: header name,id, first-column values
\* a, A and b.
StepSrcRecords ==
    { Row(<<"a">>, Str(<<"b">>)),
      Row(<<"b">>, Str(<<"a">>)),
      Row(<<" ", "a">>, Str(<<"a">>)),
      LongRow(<<"a">>, Str(<<"b">>)) }
StepTgtRecords ==
    { NameFirstRow(<<"a">>, <<"b">>),
      NameFirstRow(<<"A">>, <<"a">>),
      NameFirstRow(<<"b">>, <<"b">>) }

\* A row of a file with header name,id,age.
AgeRow(name, id, age) == NameFirstRow(name, id) \o << <<"age", age>> >>
\* The rows of a source file with header id,name and of a target file with
\* header name,id,age whose first column holds what the source has as id.
OrderSrcRecords ==
    { Row(<<"a">>, Str(<<"b">>)),
      Row(<<"b">>, Str(<<"b">>)) }
OrderTgtRecords ==
    { AgeRow(<<"a">>, <<"b">>, Str(<<"b">>)),
      AgeRow(<<"b">>, <<"b">>, None) }

\* Longest stream of a run made through the application.
MaxRunRecs == 1
\* The rows of those streams: two rows of one id that differ in a field.
AppRecords == {Row(<<"a">>, Str(<<"a">>)), Row(<<"a">>, Str(<<"b">>))}
\* FailingDiffWriters: the attrs defaults, the one of the test suite, those
\* FailingDiffWriter.of makes.
FailingWriters ==
    { FailingDiffWriter(Callable("ReconcilerError"), None),
      FailingDiffWriter(Callable("RuntimeError"), None),
      FailingDiffWriter_of(None, None),
      FailingDiffWriter_of(None, Str(<<>>)),
      FailingDiffWriter_of(Callable("ValueError"), Str(<<"boom">>)) }
\* The lists passed to a FailingDiffWriter's write().
FailingLists == SeqsUpTo({of_not_in_target(Str(<<"a">>))}, 1)
\* The configs app.setup() is given: the defaults of Config.of, the factories
\* of the package, and a config that awaits setup itself.
Settings == {"verbosity", "stdout"}
SettingDefaults == {None, Str(<<"0">>)}
VerbosityOne == << <<"verbosity", Str(<<"1">>)>> >>
Configs ==
    { Config_of(None, None, <<>>),
      Config_of(Callable("CSVDiffWriter.of"), Callable("CSVReconciler.of"),
                VerbosityOne),
      Config_of(Callable("FailingDiffWriter.of"), Callable("CSVReconciler.of"),
                <<>>),
      Config_of(Callable("PrettyDiffWriter.of"), None, VerbosityOne),
      Config_of_awaiting_setup(Str(<<"later">>)) }
AppIdle ==
    /\ conf = Config_of_awaiting_setup(None)
    /\ setups = <<>> /\ lastUse = <<>>
    /\ runPc = "idle" /\ runRaised = NoExc
    /\ rKind = "csv" /\ returned = <<>>
    /\ wExc = FailingDiffWriter(Callable("ReconcilerError"), None)
    /\ wFailure = NoFailure
    /\ dFirst = <<>>

----------------------------------------------------------------------------
(* The reconciliation engine: one CSVReconciler, its reconcile() generator   *)
(* created and then advanced by a consumer.                                 *)

Init ==
    /\ source \in SeqsUpTo(EngineRecords, MaxSrcRecs)
    /\ target \in SeqsUpTo(EngineRecords, MaxTgtRecs)
    /\ srcRead = 0 /\ tgtRead = 0 /\ pos = 0
    /\ _unresolved_src_records = <<>> /\ _unresolved_tgt_records = <<>>
    /\ pc = "loop" /\ pending = <<>> /\ flushIdx = 1
    /\ out = <<>> /\ raised = NoExc
    /\ consumer = "pulling" /\ suspended = TRUE
    /\ handed = <<>> /\ outMeta = <<>>
    /\ DifferIdle /\ dSource = <<>> /\ dTarget = <<>> /\ dRecordId = None
    \* No pair of engine rows has two target-only columns: one order suffices.
    /\ hashOrder = ColumnOrder
    /\ ProjIdle /\ WriterIdle /\ InstanceIdle /\ AppIdle

Next ==
    \/ StepBothPresent
    \/ StepSrcOnly
    \/ StepTgtOnly
    \/ StepExhausted
    \/ YieldFromCompare
    \/ FlushSrc
    \/ FlushTgt
    \/ ConsumerStop

Spec == Init /\ [][Next]_vars

----------------------------------------------------------------------------
(* The differ alone: compare() called on arbitrary records.                 *)

InitDiffer ==
    /\ EngineIdle
    /\ dSource \in OrderedRecords
    /\ dTarget \in CanonicalRecords
    /\ dRecordId \in {None, Str(<<"a">>)}
    /\ DifferIdle
    /\ hashOrder \in HashOrders
    /\ ProjIdle /\ WriterIdle /\ InstanceIdle /\ AppIdle

NextDiffer == DifferCall \/ DifferAdvance

SpecDiffer == InitDiffer /\ [][NextDiffer]_vars

----------------------------------------------------------------------------
(* reconcile() invoked again on an instance whose run is complete.          *)

NextRerun == Next \/ ReconcileAgain

SpecRerun == Init /\ [][NextRerun]_vars

----------------------------------------------------------------------------
(* Two instances, each over its own streams, advanced in any interleaving.  *)

InitTwo ==
    /\ source \in SeqsUpTo(PairSrcRecords, MaxPairSrcRecs)
    /\ target \in SeqsUpTo(PairTgtRecords, MaxPairTgtRecs)
    /\ srcRead = 0 /\ tgtRead = 0 /\ pos = 0
    /\ _unresolved_src_records = <<>> /\ _unresolved_tgt_records = <<>>
    /\ pc = "loop" /\ pending = <<>> /\ flushIdx = 1
    /\ out = <<>> /\ raised = NoExc
    /\ consumer = "pulling" /\ suspended = TRUE
    /\ handed = <<>> /\ outMeta = <<>>
    /\ active = 1
    /\ \E s \in SeqsUpTo(PairSrcRecords, MaxPairSrcRecs),
          t \in SeqsUpTo(PairTgtRecords, MaxPairTgtRecs) :
          other = NewInstance(s, t)
    /\ DifferUnused /\ hashOrder = ColumnOrder
    /\ ProjIdle /\ WriterIdle /\ AppIdle

NextTwo ==
    \/ StepBothPresent
    \/ StepSrcOnly
    \/ StepTgtOnly
    \/ StepExhausted
    \/ YieldFromCompare
    \/ FlushSrc
    \/ FlushTgt
    \/ Switch

SpecTwo == InitTwo /\ [][NextTwo]_vars

----------------------------------------------------------------------------
(* A CSVDiff constructed directly; its expected and found properties read.  *)

InitDiff ==
    /\ EngineIdle /\ DifferUnused /\ hashOrder = ColumnOrder
    /\ pDiff \in CSVDiffs
    /\ pExpected = Unread /\ pFound = Unread
    /\ WriterIdle /\ InstanceIdle /\ AppIdle

NextDiff == ReadExpected \/ ReadFound

SpecDiff == InitDiff /\ [][NextDiff]_vars

----------------------------------------------------------------------------
(* A CSVDiffWriter given lists of diffs in successive write() calls.        *)

InitCSVWriter ==
    /\ EngineIdle /\ DifferUnused /\ hashOrder = ColumnOrder
    /\ ProjIdle /\ InstanceIdle /\ AppIdle
    /\ wKind = "csv" /\ wPc = "new" /\ wFeed = "list"
    /\ wCalls \in SeqsUpTo(SeqsUpTo(WriterDiffs, MaxDiffs), MaxCalls)
    /\ wGiven = <<>> /\ wTaken = 0
    /\ wHistory = <<>> /\ written = <<>>

NextCSVWriter == WriterNew \/ WriteCall \/ WriteNext

SpecCSVWriter == InitCSVWriter /\ [][NextCSVWriter]_vars

----------------------------------------------------------------------------
(* usecases.run: a writer of any class drains a reconcile() run.            *)

InitSink ==
    /\ source \in SeqsUpTo(SinkRecords, MaxSrcRecs)
    /\ target \in SeqsUpTo(SinkRecords, MaxTgtRecs)
    /\ srcRead = 0 /\ tgtRead = 0 /\ pos = 0
    /\ _unresolved_src_records = <<>> /\ _unresolved_tgt_records = <<>>
    /\ pc = "loop" /\ pending = <<>> /\ flushIdx = 1
    /\ out = <<>> /\ raised = NoExc
    /\ consumer = "pulling" /\ suspended = TRUE
    /\ handed = <<>> /\ outMeta = <<>>
    /\ DifferUnused /\ hashOrder = ColumnOrder
    /\ ProjIdle /\ InstanceIdle /\ AppIdle
    /\ wKind \in {"csv", "pretty", "noop"}
    /\ wPc = "new" /\ wFeed = "reconcile"
    /\ wCalls = <<>> /\ wGiven = <<>> /\ wTaken = 0
    /\ wHistory = <<>> /\ written = <<>>

NextSink ==
    \/ WriterNew
    \/ RunWrite
    \/ SinkPulls /\ StepBothPresent
    \/ SinkPulls /\ StepSrcOnly
    \/ SinkPulls /\ StepTgtOnly
    \/ SinkPulls /\ StepExhausted
    \/ SinkPulls /\ YieldFromCompare
    \/ SinkPulls /\ FlushSrc
    \/ SinkPulls /\ FlushTgt
    \/ SinkTake
    \/ SinkEnd

SpecSink == InitSink /\ [][NextSink]_vars

----------------------------------------------------------------------------
(* The differ alone, compare() called twice with the same arguments.        *)

\* compare() is called a second time with the arguments of the first call,
\* by the same program: in this interpreter, or in a later run of the
\* program, whose interpreter seeds the hashes of str anew (hash
\* randomisation), so that a set of column names may iterate in another
\* order.  SimpleCSVRecordDiffer has no attributes, and a call makes a new
\* generator.
DifferCallAgain ==
    /\ dPc \in {"done", "error"} /\ dFirst = <<>>
    /\ dFirst' = <<[source |-> dSource, target |-> dTarget,
                    record_id |-> dRecordId, out |-> dOut, raised |-> dRaised]>>
    /\ hashOrder' \in HashOrders
    /\ UNCHANGED <<dSource, dTarget, dRecordId>>
    /\ dPending' = compare(dSource, dTarget, dRecordId)'
    /\ dPc' = "iterating" /\ dOut' = <<>> /\ dRaised' = NoExc
    /\ UNCHANGED <<engineVars, projVars, writerVars, instanceVars, appVars>>

InitDifferTwice ==
    /\ EngineIdle
    /\ dSource \in TwiceSources
    /\ dTarget \in TwiceTargets
    /\ dRecordId \in {None, Str(<<"a">>)}
    /\ DifferIdle
    /\ hashOrder \in HashOrders
    /\ ProjIdle /\ WriterIdle /\ InstanceIdle /\ AppIdle

NextDifferTwice == DifferCall \/ DifferAdvance \/ DifferCallAgain

SpecDifferTwice == InitDifferTwice /\ [][NextDifferTwice]_vars

----------------------------------------------------------------------------
(* The engine on two files with different headers, its sequence advanced    *)
(* also after its end.                                                      *)

InitStep ==
    /\ source \in SeqsUpTo(StepSrcRecords, MaxStepRecs)
    /\ target \in SeqsUpTo(StepTgtRecords, MaxStepRecs)
    /\ srcRead = 0 /\ tgtRead = 0 /\ pos = 0
    /\ _unresolved_src_records = <<>> /\ _unresolved_tgt_records = <<>>
    /\ pc = "loop" /\ pending = <<>> /\ flushIdx = 1
    /\ out = <<>> /\ raised = NoExc
    /\ consumer = "pulling" /\ suspended = TRUE
    /\ handed = <<>> /\ outMeta = <<>>
    /\ DifferUnused /\ hashOrder = ColumnOrder
    /\ ProjIdle /\ WriterIdle /\ InstanceIdle /\ AppIdle

NextStep == Next \/ AdvanceEnded

SpecStep == InitStep /\ [][NextStep]_vars

----------------------------------------------------------------------------
(* The engine on a target file that has the source's columns in another     *)
(* order and one column more.                                               *)

InitOrder ==
    /\ source \in SeqsUpTo(OrderSrcRecords, MaxStepRecs)
    /\ target \in SeqsUpTo(OrderTgtRecords, MaxStepRecs)
    /\ srcRead = 0 /\ tgtRead = 0 /\ pos = 0
    /\ _unresolved_src_records = <<>> /\ _unresolved_tgt_records = <<>>
    /\ pc = "loop" /\ pending = <<>> /\ flushIdx = 1
    /\ out = <<>> /\ raised = NoExc
    /\ consumer = "pulling" /\ suspended = TRUE
    /\ handed = <<>> /\ outMeta = <<>>
    /\ DifferUnused /\ hashOrder = ColumnOrder
    /\ ProjIdle /\ WriterIdle /\ InstanceIdle /\ AppIdle

SpecOrder == InitOrder /\ [][Next]_vars

----------------------------------------------------------------------------
(* A run whose consumer advances the sequence until it ends: a for loop     *)
(* over reconcile(), as DiffWriter.write makes it.                          *)

NextConsumed ==
    \/ StepBothPresent
    \/ StepSrcOnly
    \/ StepTgtOnly
    \/ StepExhausted
    \/ YieldFromCompare
    \/ FlushSrc
    \/ FlushTgt

\* The consumer's loop calls next() again after every diff it is given.
SpecConsumed == InitStep /\ [][NextConsumed]_vars /\ WF_vars(NextConsumed)

----------------------------------------------------------------------------
(* A FailingDiffWriter, or a NoOpDiffWriter beside it, given a reconcile()   *)
(* run and then lists of diffs in successive write() calls.                 *)

InitFailing ==
    /\ source \in SeqsUpTo(AppRecords, MaxRunRecs)
    /\ target \in SeqsUpTo(AppRecords, MaxRunRecs)
    /\ srcRead = 0 /\ tgtRead = 0 /\ pos = 0
    /\ _unresolved_src_records = <<>> /\ _unresolved_tgt_records = <<>>
    /\ pc = "loop" /\ pending = <<>> /\ flushIdx = 1
    /\ out = <<>> /\ raised = NoExc
    /\ consumer = "pulling" /\ suspended = TRUE
    /\ handed = <<>> /\ outMeta = <<>>
    /\ DifferUnused /\ hashOrder = ColumnOrder
    /\ ProjIdle /\ InstanceIdle
    /\ conf = Config_of_awaiting_setup(None)
    /\ setups = <<>> /\ lastUse = <<>>
    /\ runPc = "idle" /\ runRaised = NoExc
    /\ rKind = "csv" /\ returned = <<>>
    /\ wKind \in {"failing", "noop"}
    /\ wExc \in FailingWriters
    /\ wKind = "noop" => wExc = FailingDiffWriter(Callable("ReconcilerError"), None)
    /\ wFailure = NoFailure
    /\ dFirst = <<>>
    /\ wPc = "new" /\ wFeed = "list"
    /\ wCalls \in SeqsUpTo(FailingLists, MaxCalls)
    /\ wGiven = <<>> /\ wTaken = 0
    /\ wHistory = <<>> /\ written = <<>>

NextFailing ==
    \/ WriterNew
    \/ RunWrite
    \/ WriteCall
    \/ WriteNext
    \/ FailingWrite
    \/ SinkPulls /\ StepBothPresent
    \/ SinkPulls /\ StepSrcOnly
    \/ SinkPulls /\ StepTgtOnly
    \/ SinkPulls /\ StepExhausted
    \/ SinkPulls /\ YieldFromCompare
    \/ SinkPulls /\ FlushSrc
    \/ SinkPulls /\ FlushTgt
    \/ SinkTake
    \/ SinkEnd

SpecFailing == InitFailing /\ [][NextFailing]_vars

----------------------------------------------------------------------------
(* A NoOpReconciler made by NoOpReconciler.of(source, target) whose          *)
(* reconcile() is called time and again.                                    *)

InitNoOp ==
    /\ source \in SeqsUpTo(SinkRecords, MaxSrcRecs)
    /\ target \in SeqsUpTo(SinkRecords, MaxTgtRecs)
    /\ srcRead = 0 /\ tgtRead = 0 /\ pos = 0
    /\ _unresolved_src_records = <<>> /\ _unresolved_tgt_records = <<>>
    /\ pc = "loop" /\ pending = <<>> /\ flushIdx = 1
    /\ out = <<>> /\ raised = NoExc
    /\ consumer = "pulling" /\ suspended = TRUE
    /\ handed = <<>> /\ outMeta = <<>>
    /\ DifferUnused /\ hashOrder = ColumnOrder
    /\ ProjIdle /\ WriterIdle /\ InstanceIdle
    /\ conf = Config_of_awaiting_setup(None)
    /\ setups = <<>> /\ lastUse = <<>>
    /\ runPc = "idle" /\ runRaised = NoExc
    /\ rKind = "noop" /\ returned = <<>>
    /\ wExc = FailingDiffWriter(Callable("ReconcilerError"), None)
    /\ wFailure = NoFailure
    /\ dFirst = <<>>

NextNoOp == Len(returned) < MaxCalls /\ NoOpReconcile

SpecNoOp == InitNoOp /\ [][NextNoOp]_vars

----------------------------------------------------------------------------
(* The application: app.conf is used, app.setup() is called, usecases.run   *)
(* is called once.                                                          *)

InitApp ==
    /\ source \in SeqsUpTo(AppRecords, MaxRunRecs)
    /\ target \in SeqsUpTo(AppRecords, MaxRunRecs)
    /\ srcRead = 0 /\ tgtRead = 0 /\ pos = 0
    /\ _unresolved_src_records = <<>> /\ _unresolved_tgt_records = <<>>
    /\ pc = "loop" /\ pending = <<>> /\ flushIdx = 1
    /\ out = <<>> /\ raised = NoExc
    /\ consumer = "pulling" /\ suspended = TRUE
    /\ handed = <<>> /\ outMeta = <<>>
    /\ DifferUnused /\ hashOrder = ColumnOrder
    /\ ProjIdle /\ WriterIdle /\ InstanceIdle /\ AppIdle

NextApp ==
    \/ \E config \in Configs : setup(config)
    \/ \E op \in {"diff_writer_factory", "reconciler_factory"} :
          UseConf(op, NoSetting, None)
    \/ \E op \in {"get", "get_or_default"}, setting \in Settings,
          default \in SettingDefaults :
          UseConf(op, setting, IF op = "get" THEN None ELSE default)
    \/ RunStart
    \/ runPc = "started" /\ WriterNew
    \/ runPc = "started" /\ rKind = "csv" /\ RunWrite
    \/ runPc = "started" /\ RunWriteNoOp
    \/ WriteNext
    \/ FailingWrite
    \/ SinkPulls /\ StepBothPresent
    \/ SinkPulls /\ StepSrcOnly
    \/ SinkPulls /\ StepTgtOnly
    \/ SinkPulls /\ StepExhausted
    \/ SinkPulls /\ YieldFromCompare
    \/ SinkPulls /\ FlushSrc
    \/ SinkPulls /\ FlushTgt
    \/ SinkTake
    \/ SinkEnd
    \/ RunEnd

SpecApp == InitApp /\ [][NextApp]_vars

----------------------------------------------------------------------------
(* Vocabulary of the properties *)

Range(s) == {s[i] : i \in DOMAIN s}
Ids(stream) == {RecordId(stream[i]) : i \in DOMAIN stream}
UniqueIds(stream) ==
    \A i, j \in DOMAIN stream : i # j => RecordId(stream[i]) # RecordId(stream[j])
\* s is t with some records deleted.
IsSubsequence(s, t) ==
    \E keep \in SUBSET DOMAIN t :
        LET idx == SelectSeq([i \in DOMAIN t |-> i], LAMBDA i : i \in keep)
        IN s = [k \in 1..Len(idx) |-> t[idx[k]]]
\* Number of diffs of `kind` about record `id` among the diffs `ds`.
DiffCount(ds, kind, id) ==
    Cardinality({i \in DOMAIN ds : ds[i].kind = kind /\ ds[i].record_id = id})
\* Number of diffs of `kind` naming column `column` among the diffs `ds`.
FieldCount(ds, kind, column) ==
    Cardinality({i \in DOMAIN ds : ds[i].kind = kind /\ ds[i].field = column})
\* Number of compare() calls made for record `id`.
HandedCount(id) == Cardinality({i \in DOMAIN handed : handed[i][3] = id})
MissingKinds == {NOT_IN_TARGET, NOT_IN_SOURCE}
Complete == pc = "done"

\* The normal form of a value as the specification words it: a string with
\* its leading and trailing whitespace removed and its letters lower-cased;
\* anything else as it is.
Normalized(v) ==
    IF v.kind # "str" THEN v
    ELSE LET ink == {i \in DOMAIN v.chars : v.chars[i] # " "}
         IN IF ink = {} THEN Str(<<>>)
            ELSE LET first == CHOOSE i \in ink : \A j \in ink : i <= j
                     last == CHOOSE i \in ink : \A j \in ink : j <= i
                 IN Str([k \in 1..(last - first + 1) |->
                           LET c == v.chars[first + k - 1]
                           IN IF c = "A" THEN "a" ELSE IF c = "B" THEN "b" ELSE c])

----------------------------------------------------------------------------
(* Properties of the engine (specification Spec) *)

\* C1: reconciling a stream against an identical copy of itself yields an
\* empty diff sequence: at no point of such a run has a diff been yielded or
\* an exception been raised.
C1_IdenticalStreamsYieldNothing ==
    source = target => out = <<>> /\ pc # "error"
C1_Witness ==
    /\ Complete /\ source = target /\ Len(source) >= 2
    /\ source[1] # source[2]
    /\ \E i \in DOMAIN source : HasKey(source[i], NoneCol)

\* C2 (as claimed): when one stream is the other with records deleted and ids
\* are unique within each stream, a complete run hands every common id to the
\* differ exactly once and emits missing-record diffs only for ids that occur
\* in exactly one stream.
C2_DeletionsReconciled ==
    ( /\ Complete
      /\ UniqueIds(source) /\ UniqueIds(target)
      /\ IsSubsequence(source, target) \/ IsSubsequence(target, source) )
    => /\ \A id \in Ids(source) \cap Ids(target) : HandedCount(id) = 1
       /\ \A i \in DOMAIN out :
            out[i].kind \in MissingKinds =>
                ~(out[i].record_id \in Ids(source) /\ out[i].record_id \in Ids(target))

\* C3 (as claimed): two records with distinct ids, swapped between source and
\* target, reconcile to an empty diff sequence.
C3_SwappedPairYieldsNothing ==
    ( /\ Complete
      /\ Len(source) = 2 /\ Len(target) = 2
      /\ RecordId(source[1]) # RecordId(source[2])
      /\ target = <<source[2], source[1]>> )
    => out = <<>>

\* C4: in a complete run over streams with unique ids, an id of the source
\* that the target lacks gets exactly one NOT_IN_TARGET diff and no
\* NOT_IN_SOURCE diff, and an id of the target that the source lacks gets
\* exactly one NOT_IN_SOURCE diff and no NOT_IN_TARGET diff.
C4_OneSidedIdsReportedOnce ==
    (Complete /\ UniqueIds(source) /\ UniqueIds(target))
    => /\ \A id \in Ids(source) \ Ids(target) :
            /\ DiffCount(out, NOT_IN_TARGET, id) = 1
            /\ DiffCount(out, NOT_IN_SOURCE, id) = 0
       /\ \A id \in Ids(target) \ Ids(source) :
            /\ DiffCount(out, NOT_IN_SOURCE, id) = 1
            /\ DiffCount(out, NOT_IN_TARGET, id) = 0
C4_Witness ==
    /\ Complete /\ UniqueIds(source) /\ UniqueIds(target)
    /\ Ids(source) \ Ids(target) # {}
    /\ Ids(target) \ Ids(source) # {}
    /\ Ids(source) \cap Ids(target) # {}

\* C9: when a diff produced at lock-step position p is yielded, at most p
\* records have been pulled from each stream; and once the consumer has
\* stopped, no record has been pulled beyond what had been when the last
\* diff it took was yielded (none at all if it took no diff).
C9_ReadsBoundedByPosition ==
    /\ \A i \in DOMAIN out :
          /\ outMeta[i].srcRead <= outMeta[i].pos
          /\ outMeta[i].tgtRead <= outMeta[i].pos
    /\ consumer = "stopped" =>
          IF out = <<>>
          THEN srcRead = 0 /\ tgtRead = 0
          ELSE /\ srcRead = outMeta[Len(out)].srcRead
               /\ tgtRead = outMeta[Len(out)].tgtRead
               /\ srcRead <= outMeta[Len(out)].pos
               /\ tgtRead <= outMeta[Len(out)].pos
C9_Witness ==
    /\ consumer = "stopped" /\ Len(out) = 1
    /\ out[1].kind = FIELD_MISMATCH
    /\ outMeta[1].pos = 1
    /\ Len(source) = 3 /\ Len(target) = 2

\* C10: once a compare() call of the run has raised, reconcile has ended
\* with that very exception, and no NOT_IN_TARGET / NOT_IN_SOURCE diff has
\* been emitted for the buffered records.
CallRaises(call) == call[5] # <<>> /\ IsRaise(call[5][Len(call[5])])
ExceptionOf(call) == call[5][Len(call[5])].field
C10_DifferErrorAbortsRun ==
    /\ \A i \in DOMAIN handed :
          (CallRaises(handed[i]) /\ (i < Len(handed) \/ pc # "compare"))
          => /\ pc = "error"
             /\ raised = ExceptionOf(handed[i])
             /\ i = Len(handed)
    /\ pc = "error" =>
          /\ \A i \in DOMAIN out : out[i].kind \notin MissingKinds
          /\ ~ ENABLED Next
C10_Witness ==
    /\ pc = "error" /\ raised = "TypeError"
    /\ _unresolved_src_records # <<>> /\ _unresolved_tgt_records # <<>>
    /\ out # <<>>

----------------------------------------------------------------------------
(* Properties of SimpleCSVRecordDiffer.compare (specification SpecDiffer) *)

DifferDone == dPc = "done"
SharedColumns == Keys(dSource) \cap Keys(dTarget)

\* C5: for a column both records have, compare() emits a FIELD_MISMATCH diff
\* exactly when the normalized values differ, and every such diff carries
\* the original, unnormalized values.
C5_FieldMismatchIffNormalizedDiffer ==
    DifferDone =>
        \A c \in SharedColumns :
            /\ (FieldCount(dOut, FIELD_MISMATCH, c) >= 1)
                  <=> (Normalized(Lookup(dSource, c)) # Normalized(Lookup(dTarget, c)))
            /\ \A i \in DOMAIN dOut :
                  (dOut[i].kind = FIELD_MISMATCH /\ dOut[i].field = c)
                  => /\ dOut[i].source_value = Lookup(dSource, c)
                     /\ dOut[i].target_value = Lookup(dTarget, c)
C5_Witness ==
    /\ DifferDone
    /\ \E c \in SharedColumns :
          /\ Lookup(dSource, c) # Lookup(dTarget, c)
          /\ FieldCount(dOut, FIELD_MISMATCH, c) = 0
    /\ \E c \in SharedColumns :
          /\ FieldCount(dOut, FIELD_MISMATCH, c) = 1
          /\ Lookup(dSource, c) # Normalized(Lookup(dSource, c))

\* C6: a column the target has and the source lacks gets exactly one
\* EXTRA_TARGET_FIELD diff and no FIELD_MISMATCH diff; a column the source
\* has gets no EXTRA_TARGET_FIELD diff.
C6_ExtraTargetColumnsReportedOnce ==
    DifferDone =>
        /\ \A c \in Keys(dTarget) \ Keys(dSource) :
              /\ FieldCount(dOut, EXTRA_TGT_FIELD, c) = 1
              /\ FieldCount(dOut, FIELD_MISMATCH, c) = 0
        /\ \A c \in Keys(dSource) : FieldCount(dOut, EXTRA_TGT_FIELD, c) = 0
C6_Witness ==
    /\ DifferDone
    /\ Keys(dTarget) \ Keys(dSource) # {}
    /\ Keys(dSource) \ Keys(dTarget) # {}

\* C7 (as claimed): a column the source has and the target lacks gets a
\* FIELD_MISMATCH diff, whatever its source value, and no diff of another
\* kind.
C7_SourceOnlyColumnIsMismatch ==
    DifferDone =>
        \A c \in Keys(dSource) \ Keys(dTarget) :
            /\ FieldCount(dOut, FIELD_MISMATCH, c) >= 1
            /\ \A i \in DOMAIN dOut :
                  dOut[i].field = c => dOut[i].kind = FIELD_MISMATCH

\* C8: compare() without a record_id never yields a diff and never ends
\* normally; the exception it ends with is RecordIDMissingError.
C8_MissingRecordIdFails ==
    IsNone(dRecordId) =>
        /\ dOut = <<>>
        /\ dPc # "done"
        /\ dPc = "error" => dRaised = "RecordIDMissingError"
        /\ dPc = "iterating" => dPending # <<>>
C8_Witness ==
    /\ IsNone(dRecordId) /\ dPc = "error"
    /\ Keys(dTarget) \ Keys(dSource) # {}
    /\ \E c \in SharedColumns :
          Normalized(Lookup(dSource, c)) # Normalized(Lookup(dTarget, c))

----------------------------------------------------------------------------
(* Order and shape of the engine's diffs (specification Spec) *)

\* The keys of a dict, in its iteration order.
KeySeq(m) == [i \in DOMAIN m |-> m[i][1]]
\* The record ids of the diffs of `kind` among `ds`, in order.
IdsOfKind(ds, kind) ==
    LET sel == SelectSeq(ds, LAMBDA d : d.kind = kind)
    IN [i \in DOMAIN sel |-> sel[i].record_id]
Longest == IF Len(source) >= Len(target) THEN Len(source) ELSE Len(target)

\* C11: a NOT_IN_TARGET or NOT_IN_SOURCE diff is yielded only once every
\* record of both streams has been read and every lock-step position has
\* been passed; in a complete run the NOT_IN_TARGET diffs name the ids left
\* in the source-side buffer, one each and in the buffer's order, and the
\* NOT_IN_SOURCE diffs do the same for the target-side buffer.
C11_MissingDiffsAfterExhaustionInBufferOrder ==
    /\ \A i \in DOMAIN out :
          out[i].kind \in MissingKinds =>
             /\ outMeta[i].srcRead = Len(source)
             /\ outMeta[i].tgtRead = Len(target)
             /\ outMeta[i].pos = Longest
    /\ Complete =>
          /\ IdsOfKind(out, NOT_IN_TARGET) = KeySeq(_unresolved_src_records)
          /\ IdsOfKind(out, NOT_IN_SOURCE) = KeySeq(_unresolved_tgt_records)
C11_Witness ==
    /\ Complete
    /\ Len(_unresolved_src_records) >= 2
    /\ Len(_unresolved_tgt_records) >= 1
    /\ handed # <<>>
    /\ \E i \in DOMAIN out : out[i].kind = FIELD_MISMATCH

\* The diffs yielded while the lock-step loop stood at position p, the final
\* missing-record diffs apart.
DiffsAt(p) ==
    LET idx == SelectSeq([i \in DOMAIN out |-> i],
                         LAMBDA i : outMeta[i].pos = p
                                    /\ out[i].kind \notin MissingKinds)
    IN [k \in DOMAIN idx |-> out[idx[k]]]
\* The diffs a compare() call yields before it ends or raises.
DiffsOf(call) == SelectSeq(call[5], LAMBDA item : ~IsRaise(item))
\* The call handed[k] is no longer being drained.
CallOver(k) == k < Len(handed) \/ pc # "compare"

\* C12: diffs leave the engine in the order of the lock-step positions they
\* were produced at; a compare() call is made at the position of the record
\* that completes the pair (for a pair resolved out of a buffer: the position
\* of the later record, after the position where the buffered one was read),
\* and all its diffs are yielded at that position.
C12_DiffsEmittedInPositionOrder ==
    /\ \A i, j \in DOMAIN out : i < j => outMeta[i].pos <= outMeta[j].pos
    /\ \A j, k \in DOMAIN handed : j < k => handed[j][4] < handed[k][4]
    /\ \A k \in DOMAIN handed :
          LET call == handed[k]
              p == call[4]
          IN /\ p <= Len(source) => source[p] = call[1]
             /\ p <= Len(target) => target[p] = call[2]
             /\ p > Len(target) =>
                   \E q \in 1..Len(target) : q < p /\ target[q] = call[2]
             /\ p > Len(source) =>
                   \E q \in 1..Len(source) : q < p /\ source[q] = call[1]
             /\ CallOver(k) => DiffsAt(p) = DiffsOf(call)
C12_Witness ==
    /\ Complete
    /\ \E k \in DOMAIN handed :
          /\ handed[k][4] > Len(target)
          /\ DiffsOf(handed[k]) # <<>>
    /\ \E i \in DOMAIN out : outMeta[i].pos < Len(target)

\* C15: with an empty target and ids unique in the source, a complete run
\* yields one NOT_IN_TARGET diff per source record, in source order and with
\* that record's id, and nothing else; with an empty source and ids unique in
\* the target it yields one NOT_IN_SOURCE diff per target record likewise.
C15_EmptySideYieldsOneMissingDiffPerRecord ==
    Complete =>
       /\ (target = <<>> /\ UniqueIds(source)) =>
             /\ Len(out) = Len(source)
             /\ \A i \in DOMAIN out :
                   /\ out[i].kind = NOT_IN_TARGET
                   /\ out[i].record_id = RecordId(source[i])
       /\ (source = <<>> /\ UniqueIds(target)) =>
             /\ Len(out) = Len(target)
             /\ \A i \in DOMAIN out :
                   /\ out[i].kind = NOT_IN_SOURCE
                   /\ out[i].record_id = RecordId(target[i])
C15_Witness ==
    /\ Complete /\ target = <<>>
    /\ Len(source) >= 3 /\ UniqueIds(source)
    /\ Len(out) = Len(source)

\* C17 (as claimed): a NOT_IN_TARGET or NOT_IN_SOURCE diff has no field and
\* no values; an EXTRA_TARGET_FIELD diff has a field and no values; a
\* FIELD_MISMATCH diff has a field.
C17_FieldsPopulatedByKind ==
    \A i \in DOMAIN out :
       LET d == out[i]
       IN /\ d.kind \in MissingKinds =>
                d.field = NoneCol /\ IsNone(d.source_value) /\ IsNone(d.target_value)
          /\ d.kind = EXTRA_TGT_FIELD =>
                d.field # NoneCol /\ IsNone(d.source_value) /\ IsNone(d.target_value)
          /\ d.kind = FIELD_MISMATCH => d.field # NoneCol

----------------------------------------------------------------------------
(* The buffers and the instances (specifications SpecRerun, SpecTwo) *)

\* A reconcile() generator has been made and its body has not run yet.
RunStarts == suspended /\ pos = 0 /\ pc = "loop"

\* C13 (as claimed): every invocation of reconcile starts with both
\* unresolved buffers empty.
C13_RunsStartWithEmptyBuffers ==
    RunStarts =>
        /\ _unresolved_src_records = <<>>
        /\ _unresolved_tgt_records = <<>>

\* What reconcile yields on the streams s and t when nothing else runs: the
\* diffs from position p on, after the diffs `acc`, with the buffers as the
\* positions before p left them; and the exception that ends the run.
RECURSIVE AloneFrom(_, _, _, _, _, _)
AloneFrom(s, t, p, sbuf, tbuf, acc) ==
    IF p > Len(s) /\ p > Len(t)
    THEN [diffs |-> acc \o [i \in DOMAIN sbuf |-> of_not_in_target(sbuf[i][1])]
                        \o [i \in DOMAIN tbuf |-> of_not_in_source(tbuf[i][1])],
          exc |-> NoExc]
    ELSE LET hasS == p <= Len(s)
             hasT == p <= Len(t)
             sid == IF hasS THEN RecordId(s[p]) ELSE None
             tid == IF hasT THEN RecordId(t[p]) ELSE None
             paired == hasS /\ hasT /\ sid = tid
             fromTgtBuf == hasS /\ ~hasT /\ HasKey(tbuf, sid)
             fromSrcBuf == hasT /\ ~hasS /\ HasKey(sbuf, tid)
             items == IF paired THEN compare(s[p], t[p], sid)
                      ELSE IF fromTgtBuf THEN compare(s[p], Lookup(tbuf, sid), sid)
                      ELSE IF fromSrcBuf THEN compare(Lookup(sbuf, tid), t[p], tid)
                      ELSE <<>>
             diffs == SelectSeq(items, LAMBDA item : ~IsRaise(item))
             sbuf2 == IF fromSrcBuf THEN DictRemove(sbuf, tid)
                      ELSE IF hasS /\ ~paired /\ ~fromTgtBuf
                      THEN DictSet(sbuf, sid, s[p]) ELSE sbuf
             tbuf2 == IF fromTgtBuf THEN DictRemove(tbuf, sid)
                      ELSE IF hasT /\ ~paired /\ ~fromSrcBuf
                      THEN DictSet(tbuf, tid, t[p]) ELSE tbuf
         IN IF items # <<>> /\ IsRaise(items[Len(items)])
            THEN [diffs |-> acc \o diffs, exc |-> items[Len(items)].field]
            ELSE AloneFrom(s, t, p + 1, sbuf2, tbuf2, acc \o diffs)
RunAlone(s, t) == AloneFrom(s, t, 1, <<>>, <<>>, <<>>)
\* The run of the instance in state `e`, if it has ended, yielded what the
\* instance yields when run alone, and ended the same way.
AsAlone(e) ==
    e.pc \in {"done", "error"} =>
        LET alone == RunAlone(e.source, e.target)
        IN e.out = alone.diffs /\ e.raised = alone.exc
\* The buffers of the instance in state `e` hold ids of its own streams only.
OwnIdsOnly(e) ==
    /\ Keys(e._unresolved_src_records) \subseteq Ids(e.source)
    /\ Keys(e._unresolved_tgt_records) \subseteq Ids(e.target)

\* C14: however the generators of two instances are advanced in turn, the
\* run of each instance yields exactly the diff sequence it yields when run
\* alone; the buffers of an instance never hold a record of the other
\* instance's streams.
C14_InstancesDoNotInterfere ==
    /\ AsAlone(EngineState) /\ AsAlone(other)
    /\ OwnIdsOnly(EngineState) /\ OwnIdsOnly(other)
C14_Witness ==
    /\ active = 2
    /\ pc \in {"flush_src", "flush_tgt"} /\ out # <<>>
    /\ other.pc \in {"flush_src", "flush_tgt"} /\ other.out # <<>>
    /\ other.handed # <<>>
    /\ Keys(_unresolved_tgt_records) \cap Keys(other._unresolved_src_records) # {}

----------------------------------------------------------------------------
(* CSVDiff.expected and CSVDiff.found (specification SpecDiff) *)

\* The text a value and a column name stand for in the table: their
\* characters, and None for an absent one.
TextOf(value) == IF IsStr(value) THEN value.chars ELSE <<"N", "o", "n", "e">>
TextOfColumn(column) ==
    IF column = NoneCol THEN <<"N", "o", "n", "e">> ELSE <<column>>
Labelled(label, text) == <<label>> \o text

\* C16: expected and found follow the table: NOT_IN_TARGET gives
\* 'Record: <record_id>' and ''; NOT_IN_SOURCE gives '' and
\* 'Record: <record_id>'; FIELD_MISMATCH gives 'Value: <source_value>' and
\* 'Value: <target_value>'; EXTRA_TARGET_FIELD gives '' and 'Column: <field>'.
C16_ExpectedFoundByKind ==
    /\ pExpected # Unread =>
          /\ pDiff.kind = NOT_IN_TARGET =>
                pExpected = Labelled("Record: ", TextOf(pDiff.record_id))
          /\ pDiff.kind = NOT_IN_SOURCE => pExpected = <<>>
          /\ pDiff.kind = FIELD_MISMATCH =>
                pExpected = Labelled("Value: ", TextOf(pDiff.source_value))
          /\ pDiff.kind = EXTRA_TGT_FIELD => pExpected = <<>>
    /\ pFound # Unread =>
          /\ pDiff.kind = NOT_IN_TARGET => pFound = <<>>
          /\ pDiff.kind = NOT_IN_SOURCE =>
                pFound = Labelled("Record: ", TextOf(pDiff.record_id))
          /\ pDiff.kind = FIELD_MISMATCH =>
                pFound = Labelled("Value: ", TextOf(pDiff.target_value))
          /\ pDiff.kind = EXTRA_TGT_FIELD =>
                pFound = Labelled("Column: ", TextOfColumn(pDiff.field))
C16_Witness ==
    /\ pDiff.kind = FIELD_MISMATCH
    /\ IsNone(pDiff.source_value) /\ pDiff.target_value = Str(<<" ", "A">>)
    /\ pExpected # Unread /\ pFound # Unread

----------------------------------------------------------------------------
(* CSVDiffWriter (specification SpecCSVWriter) *)

RECURSIVE Flatten(_)
Flatten(ss) == IF ss = <<>> THEN <<>> ELSE Head(ss) \o Flatten(Tail(ss))
\* The items the writer's for loops have taken so far, over all calls.
AllTaken ==
    Flatten([k \in DOMAIN wHistory |->
                SubSeq(wHistory[k].given, 1, wHistory[k].taken)])
    \o (IF wPc = "writing" THEN SubSeq(wGiven, 1, wTaken) ELSE <<>>)
ConsumedCSVDiffs == SelectSeq(AllTaken, IsCSVDiff)

\* C18: whatever write() calls are made on a CSVDiffWriter, what it has
\* written is one header row followed by one row per CSVDiff consumed, in
\* the order of consumption; no later row is a header.
C18_HeaderOnceThenRowsInOrder ==
    /\ wPc = "new" => written = <<>>
    /\ wPc # "new" =>
          /\ written = <<HeaderRow>> \o
                [i \in DOMAIN ConsumedCSVDiffs |-> DiffRow(ConsumedCSVDiffs[i])]
          /\ \A i \in 2..Len(written) : written[i] # HeaderRow
C18_Witness ==
    /\ Len(wHistory) = 2
    /\ \A k \in DOMAIN wHistory :
          wHistory[k].outcome = "return" /\ wHistory[k].taken = 2
    /\ ConsumedCSVDiffs[1] # ConsumedCSVDiffs[2]

\* The place of the first item of a list that is not a CSVDiff; 0 if all are.
FirstUnsupported(given) ==
    IF \A i \in DOMAIN given : IsCSVDiff(given[i]) THEN 0
    ELSE CHOOSE i \in DOMAIN given :
            /\ ~IsCSVDiff(given[i])
            /\ \A j \in 1..(i - 1) : IsCSVDiff(given[j])
\* Rows in the writable when the k-th call began.
RowsBefore(k) == IF k = 1 THEN 1 ELSE wHistory[k - 1].end

\* C19: a write() call on a list with a diff that is not a CSVDiff ends with
\* UnsupportedDiffTypeError at the first such diff: the rows it wrote are
\* those of the diffs before it, and nothing after it was taken; a call on
\* CSVDiffs only returns after a row for each.
C19_UnsupportedDiffEndsWrite ==
    /\ \A k \in DOMAIN wHistory :
          LET call == wHistory[k]
              bad == FirstUnsupported(call.given)
          IN IF bad = 0
             THEN /\ call.outcome = "return"
                  /\ call.taken = Len(call.given)
                  /\ call.end - RowsBefore(k) = Len(call.given)
             ELSE /\ call.outcome = "UnsupportedDiffTypeError"
                  /\ call.taken = bad
                  /\ call.end - RowsBefore(k) = bad - 1
    /\ wPc = "writing" => \A i \in 1..wTaken : IsCSVDiff(wGiven[i])
C19_Witness ==
    /\ Len(wHistory) = 2 /\ wPc = "ready"
    /\ wHistory[1].outcome = "UnsupportedDiffTypeError"
    /\ wHistory[1].taken = 2 /\ wHistory[1].end = 2
    /\ wHistory[2].outcome = "UnsupportedDiffTypeError"
    /\ wHistory[2].taken = 1 /\ Len(wHistory[2].given) = 2
    /\ IsCSVDiff(wHistory[2].given[2])
    /\ Len(written) = 2

----------------------------------------------------------------------------
(* Writers draining a reconcile() run (specification SpecSink) *)

\* Rows a writer of class `kind` has written after n diffs.
RowsAfter(kind, n) ==
    CASE kind = "csv" -> 1 + n [] kind = "pretty" -> 4 * n [] OTHER -> 0

\* C20: when write() of a NoOpDiffWriter, PrettyDiffWriter or CSVDiffWriter
\* has returned on a reconcile() run, the run is over: every record of both
\* streams has been read, every id left in a buffer has had its
\* missing-record diff yielded, and the writer has taken every diff yielded.
C20_NormalReturnMeansDrained ==
    \A k \in DOMAIN wHistory :
       wHistory[k].outcome = "return" =>
          /\ pc = "done"
          /\ srcRead = Len(source) /\ tgtRead = Len(target)
          /\ IdsOfKind(out, NOT_IN_TARGET) = KeySeq(_unresolved_src_records)
          /\ IdsOfKind(out, NOT_IN_SOURCE) = KeySeq(_unresolved_tgt_records)
          /\ wHistory[k].taken = Len(out)
          /\ Len(written) = RowsAfter(wKind, Len(out))
C20_Witness ==
    /\ wKind = "pretty"
    /\ wHistory # <<>> /\ wHistory[1].outcome = "return"
    /\ \E i \in DOMAIN out : out[i].kind = FIELD_MISMATCH
    /\ \E i \in DOMAIN out : out[i].kind = NOT_IN_TARGET
    /\ \E i \in DOMAIN out : out[i].kind = NOT_IN_SOURCE

----------------------------------------------------------------------------
(* The header of CSVDiffWriter (specification SpecCSVWriter) *)

\* The field names of the Diff model as its users read them.
PublicFieldNames == <<"kind", "record_id", "field", "source_value", "target_value">>

\* C21: the header row a CSVDiffWriter writes is the field names kind,
\* record_id, field, source_value, target_value, in that order.
C21_HeaderIsPublicFieldNames ==
    wPc # "new" =>
       /\ written # <<>>
       /\ written[1] = [i \in DOMAIN PublicFieldNames |-> <<PublicFieldNames[i]>>]

----------------------------------------------------------------------------
(* FailingDiffWriter (specification SpecFailing) *)

\* C22: every write() call on a FailingDiffWriter, on a list (empty or not)
\* or on a reconcile() run, ends with the exception its exc_factory builds
\* from its err_message, without taking an item of its argument: the
\* engine feeding it is never advanced and nothing is written.
C22_FailingWriteRaisesWithoutConsuming ==
    wKind = "failing" =>
       /\ \A k \in DOMAIN wHistory :
             /\ wHistory[k].outcome = wExc.exc_factory.chars[1]
             /\ wHistory[k].taken = 0
       /\ wHistory # <<>> =>
             /\ wFailure.cls = wExc.exc_factory.chars[1]
             /\ wFailure.arg = wExc.err_message
       /\ wTaken = 0 /\ written = <<>>
       /\ srcRead = 0 /\ tgtRead = 0 /\ pos = 0 /\ out = <<>>
       /\ pc = "loop" /\ suspended
C22_Witness ==
    /\ wKind = "failing" /\ wPc = "ready"
    /\ source # <<>> /\ target # <<>>
    /\ wCalls = <<>> /\ Len(wHistory) = 3
    /\ wHistory[2].given = <<>> /\ wHistory[3].given # <<>>
    /\ wFailure = [cls |-> "ValueError", arg |-> Str(<<"boom">>)]

----------------------------------------------------------------------------
(* NoOpReconciler (specification SpecNoOp) *)

\* C23: every call of NoOpReconciler.reconcile returns an empty tuple (not
\* None), whatever source and target were given to NoOpReconciler.of, and
\* no record of either has been read.
C23_NoOpReconcileReturnsEmpty ==
    /\ \A k \in DOMAIN returned :
          returned[k].kind = "tuple" /\ returned[k].items = <<>>
    /\ srcRead = 0 /\ tgtRead = 0
C23_Witness ==
    /\ Len(returned) = MaxCalls
    /\ Len(source) = MaxSrcRecs /\ Len(target) = MaxTgtRecs

----------------------------------------------------------------------------
(* app.conf and usecases.run (specification SpecApp) *)

\* C24: a use of app.conf (diff_writer_factory, reconciler_factory, get,
\* get_or_default) made before any setup() call raises NotSetupError, and
\* a run started then fails with NotSetupError with no record read, no
\* writer made and nothing written; a use made after setup(config) gives
\* what the same use of the config given last gives.
C24_ConfRaisesUntilSetup ==
    /\ \A i \in DOMAIN lastUse :
          LET use == lastUse[i]
          IN IF use.after = <<>>
             THEN use.result = [raises |-> "NotSetupError", value |-> None]
             ELSE use.result =
                     Use(use.after[1], use.op, use.setting, use.default)
    /\ (setups = <<>> /\ runPc # "idle") =>
          /\ runPc = "failed" /\ runRaised = "NotSetupError"
          /\ srcRead = 0 /\ tgtRead = 0 /\ pos = 0
          /\ wPc = "new" /\ wHistory = <<>> /\ written = <<>>
C24_Witness ==
    /\ runPc = "failed" /\ runRaised = "NotSetupError"
    /\ source # <<>> /\ target # <<>> /\ srcRead = 0 /\ tgtRead = 0
    /\ setups # <<>> /\ setups[1].cls = "_ConfigImp"
    /\ lastUse # <<>> /\ lastUse[1].after = setups
    /\ lastUse[1].op = "get_or_default" /\ lastUse[1].setting = "verbosity"
    /\ lastUse[1].result = [raises |-> NoExc, value |-> Str(<<"1">>)]

----------------------------------------------------------------------------
(* Single steps of reconcile (specification SpecStep) *)

\* The raw value a record holds in its first column.
FirstValue(record) == record[1][2]
\* The lock-step position about to be processed holds a source record, a
\* target record.
SrcPresent == pos < Len(source)
TgtPresent == pos < Len(target)
\* A step of the for loop over zip_longest is being taken.
LoopStep == pc = "loop" /\ pos' = pos + 1
\* Buffer `after` is `before` with key k mapped to v, nothing else changed.
Stored(after, before, k, v) ==
    /\ Keys(after) = Keys(before) \cup {k}
    /\ Lookup(after, k) = v
    /\ \A key \in Keys(before) \ {k} : Lookup(after, key) = Lookup(before, key)
\* Buffer `after` is `before` without key k, nothing else changed.
Removed(after, before, k) ==
    /\ Keys(after) = Keys(before) \ {k}
    /\ \A key \in Keys(after) : Lookup(after, key) = Lookup(before, key)
\* The step made one more compare() call, on (src, tgt) under id.
HandsOver(src, tgt, id) ==
    /\ Len(handed') = Len(handed) + 1
    /\ SubSeq(handed', 1, Len(handed)) = handed
    /\ LET call == handed'[Len(handed')]
       IN call[1] = src /\ call[2] = tgt /\ call[3] = id

\* C25: the diff sequence only moves forward: a step reads at most the next
\* record of each stream (no record is read twice) and keeps the diffs
\* yielded so far; once the sequence has ended, normally or with an error,
\* advancing it again yields no diff, reads no record and changes nothing.
C25_ForwardOnlySinglePass ==
    [][ /\ srcRead' \in {srcRead, srcRead + 1}
        /\ tgtRead' \in {tgtRead, tgtRead + 1}
        /\ Len(out') >= Len(out) /\ SubSeq(out', 1, Len(out)) = out
        /\ pc \in {"done", "error"} =>
              /\ out' = out /\ srcRead' = srcRead /\ tgtRead' = tgtRead
              /\ pc' = pc /\ raised' = raised /\ handed' = handed
              /\ _unresolved_src_records' = _unresolved_src_records
              /\ _unresolved_tgt_records' = _unresolved_tgt_records
      ]_vars
C25_Witness ==
    /\ consumer = "at_end" /\ pc = "error"
    /\ out # <<>> /\ srcRead < Len(source) /\ tgtRead < Len(target)

\* C26: a step on two present records whose first-column values differ
\* yields no diff and calls no compare(), also when one of the ids is a key
\* of the opposite buffer; after it the source-side buffer maps the source
\* id to the source record, the target-side buffer the target id to the
\* target record, and the other entries are as before.
C26_DifferingPairIsBufferedOnly ==
    [][ (LoopStep /\ SrcPresent /\ TgtPresent
         /\ FirstValue(source[pos + 1]) # FirstValue(target[pos + 1])) =>
           /\ out' = out /\ handed' = handed /\ pending' = pending
           /\ pc' = "loop"
           /\ Stored(_unresolved_src_records', _unresolved_src_records,
                     FirstValue(source[pos + 1]), source[pos + 1])
           /\ Stored(_unresolved_tgt_records', _unresolved_tgt_records,
                     FirstValue(target[pos + 1]), target[pos + 1])
      ]_vars
C26_Witness ==
    /\ pos = 2 /\ pc = "loop" /\ Len(source) = 2 /\ Len(target) = 2
    /\ FirstValue(source[1]) # FirstValue(target[1])
    /\ FirstValue(source[2]) # FirstValue(target[2])
    /\ FirstValue(source[2]) = FirstValue(target[1])
    /\ out = <<>> /\ handed = <<>>
    /\ Len(_unresolved_src_records) = 2 /\ Len(_unresolved_tgt_records) = 2

\* C27: a step on a source record alone: if its id is a key of the
\* target-side buffer, the entry is removed and (source record, buffered
\* target record) is handed to the differ under that id, the source-side
\* buffer being left as it is; otherwise the record is stored in the
\* source-side buffer under its id, no diff is yielded and no compare() call
\* made.  A step on a target record alone does the same with the sides
\* exchanged.
C27_LoneRecordMeetsOppositeBuffer ==
    [][ /\ (LoopStep /\ SrcPresent /\ ~TgtPresent) =>
              LET rec == source[pos + 1]
                  id == FirstValue(rec)
              IN IF id \in Keys(_unresolved_tgt_records)
                 THEN /\ HandsOver(rec, Lookup(_unresolved_tgt_records, id), id)
                      /\ Removed(_unresolved_tgt_records', _unresolved_tgt_records, id)
                      /\ _unresolved_src_records' = _unresolved_src_records
                 ELSE /\ Stored(_unresolved_src_records', _unresolved_src_records,
                                id, rec)
                      /\ _unresolved_tgt_records' = _unresolved_tgt_records
                      /\ out' = out /\ handed' = handed /\ pc' = "loop"
        /\ (LoopStep /\ TgtPresent /\ ~SrcPresent) =>
              LET rec == target[pos + 1]
                  id == FirstValue(rec)
              IN IF id \in Keys(_unresolved_src_records)
                 THEN /\ HandsOver(Lookup(_unresolved_src_records, id), rec, id)
                      /\ Removed(_unresolved_src_records', _unresolved_src_records, id)
                      /\ _unresolved_tgt_records' = _unresolved_tgt_records
                 ELSE /\ Stored(_unresolved_tgt_records', _unresolved_tgt_records,
                                id, rec)
                      /\ _unresolved_src_records' = _unresolved_src_records
                      /\ out' = out /\ handed' = handed /\ pc' = "loop"
      ]_vars
C27_Witness ==
    /\ pos = 2 /\ Len(source) = 2 /\ Len(target) = 1
    /\ handed # <<>> /\ handed[1][4] = 2
    /\ handed[1][1] = source[2] /\ handed[1][2] = target[1]
    /\ _unresolved_tgt_records = <<>>
    /\ Keys(_unresolved_src_records) = {FirstValue(source[1])}

\* C30: the two records met at a lock-step position are handed to the
\* differ, under the source record's first-column value, exactly if the raw
\* values of their first columns are equal, whatever those columns are
\* called and however close the values are after trimming and lowering.
C30_PairedIffRawFirstValuesEqual ==
    \A p \in 1..pos :
       (p <= Len(source) /\ p <= Len(target)) =>
          LET calls == SelectSeq(handed, LAMBDA call : call[4] = p)
          IN IF FirstValue(source[p]) = FirstValue(target[p])
             THEN /\ Len(calls) = 1
                  /\ calls[1][1] = source[p] /\ calls[1][2] = target[p]
                  /\ calls[1][3] = FirstValue(source[p])
             ELSE calls = <<>>
C30_Witness ==
    /\ pos = 2 /\ Len(source) = 2 /\ Len(target) = 2 /\ pc = "loop"
    /\ source[1][1][1] # target[1][1][1]
    /\ FirstValue(source[1]) = FirstValue(target[1])
    /\ Len(handed) = 1 /\ handed[1][4] = 1
    /\ FirstValue(source[2]) # FirstValue(target[2])
    /\ _sanitize_value(FirstValue(source[2])) = _sanitize_value(FirstValue(target[2]))

----------------------------------------------------------------------------
(* Ids of both streams that never meet (specification Spec) *)

----------------------------------------------------------------------------
(* compare() called twice (specification SpecDifferTwice) *)

\* C29: a second compare() call with the arguments of the first gives what
\* the first gave, the same diffs in the same order (or the same exception),
\* also when the target has several extra columns; the calls leave their
\* arguments and the engine's state as they were.
C29_CompareIsRepeatable ==
    /\ EngineIdle
    /\ \A i \in DOMAIN dFirst :
          /\ dSource = dFirst[i].source /\ dTarget = dFirst[i].target
          /\ dRecordId = dFirst[i].record_id
          /\ Len(dOut) <= Len(dFirst[i].out)
          /\ dOut = SubSeq(dFirst[i].out, 1, Len(dOut))
          /\ dPc \in {"done", "error"} =>
                dOut = dFirst[i].out /\ dRaised = dFirst[i].raised

----------------------------------------------------------------------------
(* The two buffers over a run (specification SpecStep) *)

\* Some entry of buffer `before` is no longer in buffer `after`.
Shrinks(after, before) == Keys(before) \ Keys(after) # {}

HandedAsSource(record) == Cardinality({i \in DOMAIN handed : handed[i][1] = record})
HandedAsTarget(record) == Cardinality({i \in DOMAIN handed : handed[i][2] = record})
\* `record` is what `buffer` holds under the record's id.
Held(buffer, record) ==
    /\ HasKey(buffer, FirstValue(record))
    /\ Lookup(buffer, FirstValue(record)) = record
\* `record`, of which `calls` compare() calls were made, is either handed
\* over once and under no key of `buffer`, or held in `buffer` and not
\* handed over.
HandedXorHeld(buffer, record, calls) ==
    \/ calls = 1 /\ ~HasKey(buffer, FirstValue(record))
    \/ calls = 0 /\ Held(buffer, record)

\* C32: at every point of a run over streams with unique ids, each source
\* record read so far either has been handed to the differ exactly once or
\* is held in the source-side buffer, never both and never neither; each
\* target record read so far likewise, with the target-side buffer.
C32_ReadRecordsHandedXorBuffered ==
    (UniqueIds(source) /\ UniqueIds(target)) =>
       /\ \A p \in 1..srcRead :
             HandedXorHeld(_unresolved_src_records, source[p],
                           HandedAsSource(source[p]))
       /\ \A p \in 1..tgtRead :
             HandedXorHeld(_unresolved_tgt_records, target[p],
                           HandedAsTarget(target[p]))
\* A run of two source records and one target record: the first pair's ids
\* differ, and the second source record has taken the buffered target record
\* to the differ, while the first source record stays buffered.
C32_Witness ==
    /\ UniqueIds(source) /\ UniqueIds(target)
    /\ srcRead = 2 /\ tgtRead = 1 /\ pos = 2
    /\ HandedAsSource(source[2]) = 1 /\ HandedAsTarget(target[1]) = 1
    /\ Held(_unresolved_src_records, source[1])
    /\ _unresolved_tgt_records = <<>>

----------------------------------------------------------------------------
(* The order of the kinds in the output (specification SpecStep) *)

PairKinds == {FIELD_MISMATCH, EXTRA_TGT_FIELD}

\* C33: in a complete run no NOT_IN_TARGET diff comes after a NOT_IN_SOURCE
\* diff, and no FIELD_MISMATCH or EXTRA_TARGET_FIELD diff comes after a
\* NOT_IN_TARGET or NOT_IN_SOURCE diff.
C33_PairDiffsThenMissingTargetThenMissingSource ==
    Complete =>
       \A i, j \in DOMAIN out :
          i < j =>
             /\ ~(out[i].kind = NOT_IN_SOURCE /\ out[j].kind = NOT_IN_TARGET)
             /\ ~(out[i].kind \in MissingKinds /\ out[j].kind \in PairKinds)
\* A complete run that yielded diffs of a compared pair, then a
\* NOT_IN_TARGET diff, then a NOT_IN_SOURCE diff.
C33_Witness ==
    /\ Complete /\ Len(out) >= 3
    /\ out[1].kind \in PairKinds
    /\ out[Len(out) - 1].kind = NOT_IN_TARGET
    /\ out[Len(out)].kind = NOT_IN_SOURCE

----------------------------------------------------------------------------
(* Duplicate ids within a stream (specification Spec) *)

\* The step stores the source record, the target record of its position in
\* its side's buffer.
StoresSrc ==
    /\ LoopStep /\ SrcPresent
    /\ IF TgtPresent
       THEN FirstValue(source[pos + 1]) # FirstValue(target[pos + 1])
       ELSE FirstValue(source[pos + 1]) \notin Keys(_unresolved_tgt_records)
StoresTgt ==
    /\ LoopStep /\ TgtPresent
    /\ IF SrcPresent
       THEN FirstValue(source[pos + 1]) # FirstValue(target[pos + 1])
       ELSE FirstValue(target[pos + 1]) \notin Keys(_unresolved_src_records)
\* Buffer `after` is `before` with the record held under `record`'s id
\* replaced by `record`, at the place the entry had.
Replaced(after, before, record) ==
    /\ Len(after) = Len(before)
    /\ \A i \in DOMAIN before :
          after[i] = IF before[i][1] = FirstValue(record)
                     THEN <<FirstValue(record), record>>
                     ELSE before[i]
\* No two diffs of one of the `kinds` among `ds` are about the same record.
OnePerId(ds, kinds) ==
    \A i, j \in DOMAIN ds :
       (i < j /\ ds[i].kind \in kinds /\ ds[i].kind = ds[j].kind)
          => ds[i].record_id # ds[j].record_id

\* C34: a complete run has no two NOT_IN_TARGET diffs and no two
\* NOT_IN_SOURCE diffs with the same record_id, whatever ids recur in a
\* stream; a record stored under an id its buffer holds already takes the
\* earlier record's place in the buffer.
C34_BufferedIdReportedOnce ==
    [][ /\ pc' = "done" => OnePerId(out', MissingKinds)
        /\ (StoresSrc /\ FirstValue(source[pos + 1]) \in Keys(_unresolved_src_records))
              => Replaced(_unresolved_src_records', _unresolved_src_records,
                          source[pos + 1])
        /\ (StoresTgt /\ FirstValue(target[pos + 1]) \in Keys(_unresolved_tgt_records))
              => Replaced(_unresolved_tgt_records', _unresolved_tgt_records,
                          target[pos + 1])
      ]_vars
\* A complete run whose first and third source records have one id and
\* differ, with another id buffered between them: the id is reported once,
\* before the other, and the buffer holds the third record in first place.
C34_Witness ==
    /\ Complete /\ Len(source) = 3
    /\ FirstValue(source[1]) = FirstValue(source[3])
    /\ source[1] # source[3]
    /\ Len(_unresolved_src_records) = 2
    /\ _unresolved_src_records[1] = <<FirstValue(source[3]), source[3]>>
    /\ _unresolved_src_records[2][2] = source[2]
    /\ IdsOfKind(out, NOT_IN_TARGET) = KeySeq(_unresolved_src_records)

----------------------------------------------------------------------------
(* The diffs of one compared pair (specification SpecOrder) *)

\* The place of `column` among the columns of `record`.
ColumnIndex(record, column) == CHOOSE i \in DOMAIN record : record[i][1] = column
\* The places in the output of the diffs yielded at position p by compare().
PairDiffPlaces(p) ==
    SelectSeq([i \in DOMAIN out |-> i],
              LAMBDA i : outMeta[i].pos = p /\ out[i].kind \in PairKinds)

\* C35: the diffs of a compared pair stand next to one another in the
\* output and carry the id the pair was compared under; its FIELD_MISMATCH
\* diffs come first, their columns in the order the source record has them,
\* and its EXTRA_TARGET_FIELD diffs after them.  Every diff of these two
\* kinds belongs to a compared pair.
C35_PairDiffsMismatchesThenExtras ==
    /\ \A i \in DOMAIN out :
          out[i].kind \in PairKinds =>
             \E k \in DOMAIN handed : handed[k][4] = outMeta[i].pos
    /\ \A k \in DOMAIN handed :
          LET call == handed[k]
              places == PairDiffPlaces(call[4])
          IN /\ \A n \in 1..(Len(places) - 1) : places[n + 1] = places[n] + 1
             /\ \A n \in DOMAIN places : out[places[n]].record_id = call[3]
             /\ \A m, n \in DOMAIN places :
                   m < n =>
                      LET first == out[places[m]]
                          second == out[places[n]]
                      IN /\ ~(first.kind = EXTRA_TGT_FIELD
                              /\ second.kind = FIELD_MISMATCH)
                         /\ (first.kind = FIELD_MISMATCH
                             /\ second.kind = FIELD_MISMATCH) =>
                               ColumnIndex(call[1], first.field)
                                  < ColumnIndex(call[1], second.field)
\* A complete run in which a pair gave two FIELD_MISMATCH diffs, on id and
\* then on name, and an EXTRA_TARGET_FIELD diff on age, after the diffs of
\* an earlier pair.
C35_Witness ==
    /\ Complete /\ Len(handed) = 2 /\ Len(out) = 4
    /\ out[1].kind = EXTRA_TGT_FIELD
    /\ out[2].kind = FIELD_MISMATCH /\ out[2].field = "id"
    /\ out[3].kind = FIELD_MISMATCH /\ out[3].field = "name"
    /\ out[4].kind = EXTRA_TGT_FIELD /\ out[4].field = "age"
    /\ \A i \in 2..4 : out[i].record_id = handed[2][3]

----------------------------------------------------------------------------
(* The end of a fully consumed run (specification SpecConsumed) *)

\* Some compare() call of the run raised.
SomeCallRaised ==
    \E k \in DOMAIN handed :
       \E n \in DOMAIN handed[k][5] : IsRaise(handed[k][5][n])
Flushing == pc \in {"flush_src", "flush_tgt", "done"}

\* C36: a run over finite streams whose consumer keeps advancing it comes to
\* an end; unless a compare() call raised, the end is the normal one.  The
\* loop passes no more positions than the longer stream has records, the
\* buffers are flushed only once exactly that many positions have been
\* passed, the source-side buffer before the target-side one, and when the
\* run has ended normally every buffered id has been reported.
C36_ConsumedRunTerminates ==
    /\ <>(pc \in {"done", "error"})
    /\ [](pc = "error" => SomeCallRaised)
    /\ [](pos <= Longest /\ (Flushing => pos = Longest /\ pending = <<>>))
    /\ [](Complete =>
            /\ IdsOfKind(out, NOT_IN_TARGET) = KeySeq(_unresolved_src_records)
            /\ IdsOfKind(out, NOT_IN_SOURCE) = KeySeq(_unresolved_tgt_records))
    /\ [][ /\ pc = "flush_src" => pc' \in {"flush_src", "flush_tgt"}
           /\ pc = "flush_tgt" => pc' \in {"flush_tgt", "done"}
           /\ pc' = "flush_src" => pc \in {"loop", "flush_src"}
           /\ pc \in {"done", "error"} => pc' = pc
         ]_vars
\* A run of two source records and one target record that has ended
\* normally after two positions, a compared pair and a flushed record.
C36_Witness ==
    /\ Complete /\ Len(source) = 2 /\ Len(target) = 1
    /\ pos = 2 /\ srcRead = 2 /\ tgtRead = 1
    /\ Len(handed) = 1 /\ ~SomeCallRaised
    /\ Len(_unresolved_src_records) = 1
    /\ out # <<>> /\ out[Len(out)].kind = NOT_IN_TARGET

====
